---- MODULE Spec2Model ----
(***************************************************************************)
(* Grid trading engine (src/src/bot/grid.py, GridBot) together with the    *)
(* parts of the exchange client (src/src/exchange/binance.py) and of the   *)
(* configuration model (src/src/models/schemas.py) that it calls.          *)
(*                                                                         *)
(* Prices and quantities are Python floats in the source.  The model uses  *)
(* integers and only configurations whose level prices are exact integers, *)
(* so every comparison and sum of the source is computed exactly.          *)
(*                                                                         *)
(* Every handler of the engine is one action: the whole coroutine runs     *)
(* from its entry to its return (or to the exception that leaves it).      *)
(* The state of the engine during a handler is the record built by Bot;    *)
(* the operators below transform that record statement by statement.       *)
(***************************************************************************)
EXTENDS Integers, Sequences, FiniteSets, TLC

VARIABLES
    simulation_mode,  \* GridBot.simulation_mode
    connected,        \* BinanceClient.client is not None
    symbol_info,      \* BinanceClient._symbol_info (tick, step, min notional)
    config,           \* GridBot.config
    running,          \* GridBot._running
    current_price,    \* GridBot._current_price
    grid_levels,      \* GridBot._grid_levels
    open_orders,      \* GridBot._open_orders   (dict: order id -> Order)
    trades,           \* GridBot._trades
    total_profit,     \* GridBot._total_profit
    daily_profit,     \* GridBot._daily_profit
    last_error,       \* GridBot._last_error
    sim_orders,       \* GridBot._sim_orders    (dict in insertion order)
    callbacks,        \* len(BinanceClient._price_callbacks) = len(_order_callbacks)
    streams,          \* the price/user stream task pairs start() has created
    next_order_id,    \* the exchange's next orderId
    exchange_orders,  \* the orders the exchange has accepted (id -> Order)
    now,              \* int(time.time() * 1000), the millisecond clock
    last,             \* observation of the most recent handler: what was
                      \* called, with what input, and what it did in order
    status_callbacks, \* GridBot._status_callbacks: what each subscriber does
    pending,          \* the coroutine suspended at its create_order request
    twin,             \* a second GridBot, in simulation mode, on the same grid
    risk_manager,     \* the RiskManager of the application (web/api.py)
    risk_last         \* observation of the most recent RiskManager call:
                      \* the method, its arguments and what it returned

vars == <<simulation_mode, connected, symbol_info, config, running,
          current_price, grid_levels, open_orders, trades, total_profit,
          daily_profit, last_error, sim_orders, callbacks, streams,
          next_order_id, exchange_orders, now, last, status_callbacks,
          pending, twin, risk_manager, risk_last>>

(***************************************************************************)
(* Bounds of the model.                                                    *)
(***************************************************************************)
MaxTime == 1        \* the clock ticks at most this often
MaxTrades == 2      \* a handler that would record more trades is not taken
MaxStarts == 2      \* start() registers its callbacks at most this often
MaxStreams == 1     \* start() creates its stream tasks at most this often
MaxOrderId == 4     \* the exchange hands out order ids 1..MaxOrderId
MaxDailyTrades == 3 \* record_trade_pnl is called at most this often a day
MaxLosses == 3      \* the consecutive-loss counter is followed up to here
MaxGridCount == 3   \* a posted grid of more intervals is not started
MaxSubscribers == 3 \* on_status_update is followed up to this many subscribers
MaxRestartOrderId == 6 \* ids the exchange hands out across a run and a restart
MaxRestartStreams == 2 \* stream task pairs alive across a run and a restart
MaxRecorded == 4    \* record_trade_pnl is followed for this many calls

(***************************************************************************)
(* Values.                                                                 *)
(***************************************************************************)
BUY == "BUY"
SELL == "SELL"
NEW_ == "NEW"        \* OrderStatus.NEW (NEW is a reserved word)
PARTIALLY_FILLED == "PARTIALLY_FILLED"
FILLED == "FILLED"
CANCELED == "CANCELED"
REJECTED == "REJECTED"
EXPIRED == "EXPIRED"
OrderStatus == {NEW_, PARTIALLY_FILLED, FILLED, CANCELED, REJECTED, EXPIRED}

NoPrice == -1       \* _current_price is None
NoLevel == -1       \* Order.grid_level is None
NoId == <<>>        \* GridLevel.buy_order_id / sell_order_id is None
NoError == "None"   \* _last_error is None
NoExc == ""         \* no exception is propagating

EmptyDict == [k \in {} |-> k]
DictPut(d, k, v) == [x \in (DOMAIN d) \cup {k} |-> IF x = k THEN v ELSE d[x]]
DictDel(d, k) == [x \in (DOMAIN d) \ {k} |-> d[x]]

(***************************************************************************)
(* Configurations (GridConfig instances) the model draws from: an          *)
(* arithmetic grid with levels 10, 20, 30, whose midpoint 20 is a level,   *)
(* and a geometric grid with ratio 2 and levels 10, 20, 40, whose midpoint *)
(* 25 lies between two levels.                                             *)
(***************************************************************************)
Configs ==
    { [lower_price |-> 10, upper_price |-> 30, grid_count |-> 2,
       amount_per_grid |-> 5, grid_type |-> "arithmetic"],
      [lower_price |-> 10, upper_price |-> 40, grid_count |-> 2,
       amount_per_grid |-> 2, grid_type |-> "geometric"] }

\* Prices a simulated price movement may report.
Prices == {10, 20, 30, 40}

\* Prices the exchange's ticker request may report when start() asks: one
\* below every level, one that is the top level of the arithmetic grid and
\* lies between the two upper levels of the geometric one, and one above
\* every level.
TickerPrices == {5, 30, 50}

\* Prices a ticker message of the price stream may carry.
StreamPrices == {20}

\* Statuses an executionReport may carry.  The engine tests for FILLED
\* only: CANCELED stands for every other status.
ReportStatuses == {FILLED, CANCELED}

\* _symbol_info: empty before connect() (a filter value of 0 stands for the
\* key being absent), and as connect() loads it from the exchange.  With
\* these filters the orders of the arithmetic grid are 4 units at 8, 20 and
\* 28, and the geometric grid's order at level 0 (2 units at 8) is below the
\* minimum notional.
NoSymbolInfo == [tick_size |-> 0, step_size |-> 0, min_notional |-> 0]
SymbolInfos == {[tick_size |-> 4, step_size |-> 2, min_notional |-> 20]}

\* the same, and filters whose steps divide every price and amount of Configs
TwinSymbolInfos ==
    SymbolInfos \cup {[tick_size |-> 10, step_size |-> 1, min_notional |-> 20]}

(***************************************************************************)
(* GridConfig.get_grid_levels: the grid_count + 1 prices, entry i + 1 of   *)
(* the sequence being levels[i] of the source.                             *)
(***************************************************************************)
RECURSIVE Pow(_, _)
Pow(r, n) == IF n = 0 THEN 1 ELSE r * Pow(r, n - 1)

\* (upper / lower) ** (1 / count), for the configurations where it is exact
GeometricRatio(c) ==
    CHOOSE r \in 1..c.upper_price : c.lower_price * Pow(r, c.grid_count) = c.upper_price

\* get_grid_levels with range(grid_count) for range(grid_count + 1)
get_grid_levels_exclusive(c) ==
    IF c.grid_type = "geometric"
    THEN LET ratio == GeometricRatio(c)
         IN [i \in 1..c.grid_count |-> c.lower_price * Pow(ratio, i - 1)]
    ELSE LET spacing == (c.upper_price - c.lower_price) \div c.grid_count
         IN [i \in 1..c.grid_count |-> c.lower_price + spacing * (i - 1)]

get_grid_levels(c) ==
    IF c.grid_type = "geometric"
    THEN LET ratio == GeometricRatio(c)
         IN [i \in 1..(c.grid_count + 1) |-> c.lower_price * Pow(ratio, i - 1)]
    ELSE LET spacing == (c.upper_price - c.lower_price) \div c.grid_count
         IN [i \in 1..(c.grid_count + 1) |-> c.lower_price + spacing * (i - 1)]

(***************************************************************************)
(* The engine's state during a handler, and the handler's observation.     *)
(***************************************************************************)
Bot ==
    [simulation_mode |-> simulation_mode,
     running |-> running, current_price |-> current_price,
     grid_levels |-> grid_levels, open_orders |-> open_orders,
     trades |-> trades, total_profit |-> total_profit,
     daily_profit |-> daily_profit, last_error |-> last_error,
     sim_orders |-> sim_orders, callbacks |-> callbacks,
     streams |-> streams, next_order_id |-> next_order_id,
     exchange_orders |-> exchange_orders,
     trace |-> <<>>, exc |-> NoExc]

Log(b, e) == [b EXCEPT !.trace = Append(@, e)]
Raise(b, e) == [b EXCEPT !.exc = e]

\* Statement sequencing: F runs on the state b leaves unless an exception
\* is propagating, which then passes through.
Then(b, F(_)) == IF b.exc # NoExc THEN b ELSE F(b)

\* GridBot.get_status: the snapshot handed to the status callbacks
get_status(b) ==
    [is_running |-> b.running, current_price |-> b.current_price,
     open_orders |-> Cardinality(DOMAIN b.open_orders),
     total_trades |-> Len(b.trades), total_profit |-> b.total_profit,
     daily_profit |-> b.daily_profit, last_error |-> b.last_error]

\* what a status callback does when it is awaited
Returns == "returns"
Raises == "raises"

\* the loop of _notify_status: for each subscriber in turn, the snapshot it
\* is awaited with and whether it raised; the except clause logs the
\* exception and the loop goes on
Deliveries(status) ==
    [k \in 1..Len(status_callbacks) |->
        [status |-> status, raised |-> status_callbacks[k] = Raises]]

\* the subscribers up to and including the first that raises
UpToFirstRaise(deliveries) ==
    SubSeq(deliveries, 1,
           IF \E k \in 1..Len(deliveries) : deliveries[k].raised
           THEN CHOOSE k \in 1..Len(deliveries) :
                    /\ deliveries[k].raised
                    /\ \A j \in 1..(k - 1) : ~deliveries[j].raised
           ELSE Len(deliveries))

\* _notify_status without its try: a subscriber's exception ends the loop
\* and propagates
NotifyStatusUnguarded(b) ==
    IF \E k \in 1..Len(status_callbacks) : status_callbacks[k] = Raises
    THEN Raise(Log(b, [ev |-> "publish", status |-> get_status(b),
                       notified |-> UpToFirstRaise(Deliveries(get_status(b)))]),
               "status callback error")
    ELSE Log(b, [ev |-> "publish", status |-> get_status(b),
                 notified |-> Deliveries(get_status(b))])

\* GridBot._notify_status
NotifyStatus(b) ==
    Log(b, [ev |-> "publish", status |-> get_status(b),
            notified |-> Deliveries(get_status(b))])

\* GridBot._initialize_grid_levels
InitializeGridLevels(b) ==
    LET prices == get_grid_levels(config)
    IN [b EXCEPT !.grid_levels =
            [i \in 1..Len(prices) |->
                [level |-> i - 1, price |-> prices[i],
                 has_buy_order |-> FALSE, has_sell_order |-> FALSE,
                 buy_order_id |-> NoId, sell_order_id |-> NoId]]]

(***************************************************************************)
(* Placement.                                                              *)
(***************************************************************************)
\* Decimal(str(x)).quantize(step, rounding=ROUND_DOWN); step 0: key absent
RoundDown(x, step) == IF step = 0 THEN x ELSE (x \div step) * step

round_price(price) == RoundDown(price, symbol_info.tick_size)
round_quantity(quantity) == RoundDown(quantity, symbol_info.step_size)

\* dict assignment d[k] = v on a dict kept as a sequence in insertion order
SeqPut(s, o) ==
    IF \E i \in 1..Len(s) : s[i].order_id = o.order_id
    THEN [i \in 1..Len(s) |-> IF s[i].order_id = o.order_id THEN o ELSE s[i]]
    ELSE Append(s, o)

\* GridBot._simulate_place_order: result is <<engine state, order>>
SimulatePlaceOrder(b, side, price, quantity, grid_level) ==
    LET order == [order_id |-> <<now, grid_level, side>>, side |-> side,
                  price |-> price, quantity |-> quantity,
                  filled_quantity |-> 0, status |-> NEW_,
                  grid_level |-> grid_level]
    IN <<[b EXCEPT !.sim_orders = SeqPut(@, order)], order>>

\* BinanceClient.place_limit_order: result is <<engine state, order>>, the
\* state carrying the exception when the call raises.  rej is the set of
\* grid levels whose create_order request the exchange answers with an error.
PlaceLimitOrder(b, side, price, quantity, grid_level, rej) ==
    LET b0 == Log(b, [ev |-> "call", fn |-> "place_limit_order"])
        p == round_price(price)
        q == round_quantity(quantity)
        order == [order_id |-> <<b.next_order_id>>, side |-> side,
                  price |-> p, quantity |-> q,
                  filled_quantity |-> 0, status |-> NEW_,
                  grid_level |-> grid_level]
    IN IF ~connected THEN <<Raise(b0, "Client not connected"), order>>
       ELSE IF p * q < symbol_info.min_notional
       THEN <<Raise(b0, "Order notional below minimum"), order>>
       ELSE IF grid_level \in rej
       THEN <<Raise(b0, "BinanceAPIException"), order>>
       ELSE <<[b0 EXCEPT !.next_order_id = @ + 1,
                         !.exchange_orders = DictPut(@, order.order_id, order)],
              order>>

\* the provider branch of _place_buy_order / _place_sell_order
ProviderPlace(b, side, level, rej) ==
    IF b.simulation_mode
    THEN SimulatePlaceOrder(b, side, level.price, config.amount_per_grid, level.level)
    ELSE PlaceLimitOrder(b, side, level.price, config.amount_per_grid, level.level, rej)

\* _place_buy_order after the provider call, r its result <<state, order>>
BuyOrderPlaced(r, i) ==
    IF r[1].exc # NoExc
    THEN Log([r[1] EXCEPT !.exc = NoExc],         \* except Exception: return None
             [ev |-> "order_failed", side |-> BUY, level |-> i, error |-> r[1].exc])
    ELSE Log([r[1] EXCEPT
                !.grid_levels[i + 1].has_buy_order = TRUE,
                !.grid_levels[i + 1].buy_order_id = r[2].order_id,
                !.open_orders = DictPut(@, r[2].order_id, r[2])],
             [ev |-> "placed", order |-> r[2]])

\* GridBot._place_buy_order, for the level with index i (entry i + 1)
PlaceBuyOrder(b, i, rej) ==
    IF b.grid_levels[i + 1].has_buy_order THEN b
    ELSE BuyOrderPlaced(ProviderPlace(b, BUY, b.grid_levels[i + 1], rej), i)

\* _place_sell_order letting the provider's exception propagate
SellOrderPlacedPropagating(r, i) ==
    IF r[1].exc # NoExc
    THEN Log(r[1], [ev |-> "order_failed", side |-> SELL, level |-> i,
                    error |-> r[1].exc])
    ELSE Log([r[1] EXCEPT
                !.grid_levels[i + 1].has_sell_order = TRUE,
                !.grid_levels[i + 1].sell_order_id = r[2].order_id,
                !.open_orders = DictPut(@, r[2].order_id, r[2])],
             [ev |-> "placed", order |-> r[2]])

\* _place_sell_order after the provider call
SellOrderPlaced(r, i) ==
    IF r[1].exc # NoExc
    THEN Log([r[1] EXCEPT !.exc = NoExc],
             [ev |-> "order_failed", side |-> SELL, level |-> i, error |-> r[1].exc])
    ELSE Log([r[1] EXCEPT
                !.grid_levels[i + 1].has_sell_order = TRUE,
                !.grid_levels[i + 1].sell_order_id = r[2].order_id,
                !.open_orders = DictPut(@, r[2].order_id, r[2])],
             [ev |-> "placed", order |-> r[2]])

\* _place_sell_order without its has_sell_order guard
PlaceSellOrderUnguarded(b, i, rej) ==
    SellOrderPlaced(ProviderPlace(b, SELL, b.grid_levels[i + 1], rej), i)

\* GridBot._place_sell_order
PlaceSellOrder(b, i, rej) ==
    IF b.grid_levels[i + 1].has_sell_order THEN b
    ELSE SellOrderPlaced(ProviderPlace(b, SELL, b.grid_levels[i + 1], rej), i)

\* the loop body with <= and >= for < and >
PlaceInitialStepInclusive(b, i, rej) ==
    IF b.grid_levels[i + 1].price <= b.current_price THEN PlaceBuyOrder(b, i, rej)
    ELSE IF b.grid_levels[i + 1].price >= b.current_price THEN PlaceSellOrder(b, i, rej)
    ELSE b

\* the body of the loop of _place_initial_orders, for level index i
PlaceInitialStep(b, i, rej) ==
    IF b.grid_levels[i + 1].price < b.current_price THEN PlaceBuyOrder(b, i, rej)
    ELSE IF b.grid_levels[i + 1].price > b.current_price THEN PlaceSellOrder(b, i, rej)
    ELSE b

\* the loop of _place_initial_orders, from level index i on
RECURSIVE PlaceInitialLoop(_, _, _)
PlaceInitialLoop(b, i, rej) ==
    IF i >= Len(b.grid_levels) THEN b
    ELSE PlaceInitialLoop(PlaceInitialStep(b, i, rej), i + 1, rej)

\* GridBot._place_initial_orders
PlaceInitialOrders(b, rej) ==
    IF b.current_price = NoPrice \/ b.current_price = 0
    THEN Raise(b, "Current price not available")
    ELSE PlaceInitialLoop(b, 0, rej)

(***************************************************************************)
(* Fill handling.                                                          *)
(***************************************************************************)
IsPlaced(e) == e.ev = "placed"
IsPublish(e) == e.ev = "publish"
IsFailed(e) == e.ev = "order_failed"
IsFill(e) == e.ev = "fill"
FillsOf(trace) == SelectSeq(trace, IsFill)
Since(b, b0) == SubSeq(b.trace, Len(b0.trace) + 1, Len(b.trace))

\* the BUY branch, clearing has_buy_order but leaving buy_order_id
BuyFilledKeepingId(b, gl, rej) ==
    Then(Then([b EXCEPT !.grid_levels[gl + 1].has_buy_order = FALSE],
              LAMBDA x : IF gl + 1 < Len(x.grid_levels)
                         THEN PlaceSellOrder(x, gl + 1, rej)
                         ELSE x),
         NotifyStatus)

\* the BUY branch, placing its SELL at the filled level itself
BuyFilledSameLevel(b, gl, rej) ==
    Then(Then([b EXCEPT !.grid_levels[gl + 1].has_buy_order = FALSE,
                        !.grid_levels[gl + 1].buy_order_id = NoId],
              LAMBDA x : PlaceSellOrder(x, gl, rej)),
         NotifyStatus)

\* _handle_filled_order, the branch for a filled BUY at level index gl
BuyFilled(b, gl, rej) ==
    Then(Then([b EXCEPT !.grid_levels[gl + 1].has_buy_order = FALSE,
                        !.grid_levels[gl + 1].buy_order_id = NoId],
              LAMBDA x : IF gl + 1 < Len(x.grid_levels)
                         THEN PlaceSellOrder(x, gl + 1, rej)
                         ELSE x),
         NotifyStatus)

\* grid_spacing[1] - grid_spacing[0] of the SELL branch
Spacing == get_grid_levels(config)[2] - get_grid_levels(config)[1]

\* the SELL branch, leaving has_sell_order set
SellFilledKeepingFlag(b, order, gl, rej) ==
    Then(Then([b EXCEPT !.total_profit =
                            IF Len(get_grid_levels(config)) > 1
                            THEN @ + Spacing * order.quantity ELSE @,
                        !.daily_profit =
                            IF Len(get_grid_levels(config)) > 1
                            THEN @ + Spacing * order.quantity ELSE @],
              LAMBDA x : IF gl - 1 >= 0
                         THEN PlaceBuyOrder(x, gl - 1, rej)
                         ELSE x),
         NotifyStatus)

\* the SELL branch, crediting the total profit only
SellFilledTotalOnly(b, order, gl, rej) ==
    Then(Then([b EXCEPT !.grid_levels[gl + 1].has_sell_order = FALSE,
                        !.grid_levels[gl + 1].sell_order_id = NoId,
                        !.total_profit =
                            IF Len(get_grid_levels(config)) > 1
                            THEN @ + Spacing * order.quantity ELSE @],
              LAMBDA x : IF gl - 1 >= 0
                         THEN PlaceBuyOrder(x, gl - 1, rej)
                         ELSE x),
         NotifyStatus)

\* _handle_filled_order, the branch for a filled SELL at level index gl
SellFilled(b, order, gl, rej) ==
    Then(Then([b EXCEPT !.grid_levels[gl + 1].has_sell_order = FALSE,
                        !.grid_levels[gl + 1].sell_order_id = NoId,
                        !.total_profit =
                            IF Len(get_grid_levels(config)) > 1
                            THEN @ + Spacing * order.quantity ELSE @,
                        !.daily_profit =
                            IF Len(get_grid_levels(config)) > 1
                            THEN @ + Spacing * order.quantity ELSE @],
              LAMBDA x : IF gl - 1 >= 0
                         THEN PlaceBuyOrder(x, gl - 1, rej)
                         ELSE x),
         NotifyStatus)

\* _handle_filled_order from "Find the grid level" on
FilledAtLevel(b, order, rej) ==
    IF order.grid_level = NoLevel THEN b
    ELSE IF order.grid_level >= Len(b.grid_levels) THEN Raise(b, "IndexError")
    ELSE IF order.side = BUY THEN BuyFilled(b, order.grid_level, rej)
    ELSE SellFilled(b, order, order.grid_level, rej)

\* GridBot._handle_filled_order, the statements of the coroutine
HandleFilledOrderBody(b, order, rej) ==
    IF order.order_id \notin DOMAIN b.open_orders
    THEN Raise(b, "KeyError")                       \* del self._open_orders[...]
    ELSE FilledAtLevel(
            [b EXCEPT !.open_orders = DictDel(@, order.order_id),
                      !.trades = Append(@, [trade_id |-> Len(b.trades),
                                            order_id |-> order.order_id,
                                            side |-> order.side,
                                            price |-> order.price,
                                            quantity |-> order.quantity])],
            order, rej)

\* The observation of one call of _handle_filled_order that took the engine
\* from b to b1: the orders it placed, the placements that failed, what it
\* published, its profit, the filled order's level as the call left it, and
\* whether the level of the counter-order held an order of that side before.
FillSummary(b, b1, order) ==
    [ev |-> "fill", order |-> order,
     raised |-> b1.exc # NoExc,
     placed |-> SelectSeq(Since(b1, b), IsPlaced),
     failed |-> Len(SelectSeq(Since(b1, b), IsFailed)),
     published |-> Len(SelectSeq(Since(b1, b), IsPublish)),
     traded |-> Len(b1.trades) - Len(b.trades),
     profit |-> b1.total_profit - b.total_profit,
     daily |-> b1.daily_profit - b.daily_profit,
     level_known |-> order.grid_level # NoLevel
                     /\ order.grid_level < Len(b.grid_levels),
     has_buy_order |-> /\ order.grid_level # NoLevel
                       /\ order.grid_level < Len(b.grid_levels)
                       /\ b1.grid_levels[order.grid_level + 1].has_buy_order,
     has_sell_order |-> /\ order.grid_level # NoLevel
                        /\ order.grid_level < Len(b.grid_levels)
                        /\ b1.grid_levels[order.grid_level + 1].has_sell_order,
     counter_held |->
        /\ order.grid_level # NoLevel
        /\ order.grid_level < Len(b.grid_levels)
        /\ IF order.side = BUY
           THEN /\ order.grid_level + 1 < Len(b.grid_levels)
                /\ b.grid_levels[order.grid_level + 2].has_sell_order
           ELSE /\ order.grid_level >= 1
                /\ b.grid_levels[order.grid_level].has_buy_order]

LogFill(b, b1, order) == Log(b1, FillSummary(b, b1, order))

\* _handle_filled_order, followed by the observation of the call
HandleFilledOrder(b, order, rej) ==
    LogFill(b, HandleFilledOrderBody(b, order, rej), order)

\* the condition of _check_simulated_fills
ShouldFill(order, price) ==
    \/ order.side = BUY /\ price <= order.price
    \/ order.side = SELL /\ price >= order.price

\* the second loop of _check_simulated_fills, from entry k of filled_orders
RECURSIVE HandleFilledLoop(_, _, _, _)
HandleFilledLoop(b, filled_orders, k, rej) ==
    IF k > Len(filled_orders) \/ b.exc # NoExc THEN b
    ELSE HandleFilledLoop(HandleFilledOrder(b, filled_orders[k], rej),
                          filled_orders, k + 1, rej)

\* the first loop of _check_simulated_fills: does it fill order o, and o as
\* the loop leaves it
Hit(o, price) == o.status = NEW_ /\ ShouldFill(o, price)
Mark(o, price) ==
    IF Hit(o, price)
    THEN [o EXCEPT !.status = FILLED, !.filled_quantity = o.quantity]
    ELSE o

\* filled_orders of _check_simulated_fills, from the orders as marked
FilledOrders(marked, sim, price) ==
    SelectSeq(marked, LAMBDA o : \E i \in 1..Len(sim) :
                                    /\ sim[i].order_id = o.order_id
                                    /\ Hit(sim[i], price))

\* GridBot._check_simulated_fills.  The Order objects of _sim_orders are the
\* objects _open_orders holds under the same id, so marking one FILLED shows
\* in both.
CheckSimulatedFills(b, price, rej) ==
    HandleFilledLoop(
        [b EXCEPT
            !.sim_orders = [i \in 1..Len(@) |-> Mark(@[i], price)],
            !.open_orders =
                [id \in DOMAIN @ |->
                    IF \E i \in 1..Len(b.sim_orders) : b.sim_orders[i].order_id = id
                    THEN Mark(@[id], price) ELSE @[id]]],
        FilledOrders([i \in 1..Len(b.sim_orders) |-> Mark(b.sim_orders[i], price)],
                     b.sim_orders, price),
        1, rej)

\* GridBot._on_price_update
OnPriceUpdate(b, price, rej) ==
    Then(IF b.simulation_mode
         THEN CheckSimulatedFills([b EXCEPT !.current_price = price], price, rej)
         ELSE [b EXCEPT !.current_price = price],
         NotifyStatus)

\* _on_order_update without its membership test
OnOrderUpdateUnchecked(b, order, rej) ==
    IF order.status = FILLED
    THEN HandleFilledOrder([b EXCEPT !.open_orders = DictPut(@, order.order_id, order)],
                           order, rej)
    ELSE [b EXCEPT !.open_orders = DictPut(@, order.order_id, order)]

\* GridBot._on_order_update
OnOrderUpdate(b, order, rej) ==
    IF order.order_id \notin DOMAIN b.open_orders THEN b
    ELSE IF order.status = FILLED
    THEN HandleFilledOrder([b EXCEPT !.open_orders = DictPut(@, order.order_id, order)],
                           order, rej)
    ELSE [b EXCEPT !.open_orders = DictPut(@, order.order_id, order)]

(***************************************************************************)
(* start and stop.                                                         *)
(***************************************************************************)
\* BinanceClient.get_current_price; ticker = NoPrice: the request fails
GetCurrentPrice(b, ticker) ==
    IF ~connected
    THEN Raise(Log(b, [ev |-> "call", fn |-> "get_current_price"]),
               "Client not connected")
    ELSE IF ticker = NoPrice
    THEN Raise(Log(b, [ev |-> "call", fn |-> "get_current_price"]),
               "ticker request failed")
    ELSE [Log(b, [ev |-> "call", fn |-> "get_current_price"])
            EXCEPT !.current_price = ticker]

\* BinanceClient.on_price_update and on_order_update, as start() calls them
RegisterCallbacks(b) ==
    Log(Log([b EXCEPT !.callbacks = @ + 1],
            [ev |-> "call", fn |-> "on_price_update"]),
        [ev |-> "call", fn |-> "on_order_update"])

\* the try block of a start that begins each run with an empty trade history
StartTryClearingTrades(b, ticker, rej) ==
    Then(Then(Then(Then(Then(
        InitializeGridLevels([b EXCEPT !.running = TRUE, !.last_error = NoError,
                                       !.trades = <<>>]),
        LAMBDA x : IF x.simulation_mode
                   THEN [x EXCEPT !.current_price =
                            (config.upper_price + config.lower_price) \div 2]
                   ELSE GetCurrentPrice(x, ticker)),
        RegisterCallbacks),
        LAMBDA x : PlaceInitialOrders(x, rej)),
        LAMBDA x : IF x.simulation_mode THEN x
                   ELSE [x EXCEPT !.streams = @ + 1]),
        NotifyStatus)

\* the try block of GridBot.start
StartTry(b, ticker, rej) ==
    Then(Then(Then(Then(Then(
        InitializeGridLevels([b EXCEPT !.running = TRUE, !.last_error = NoError]),
        LAMBDA x : IF x.simulation_mode
                   THEN [x EXCEPT !.current_price =
                            (config.upper_price + config.lower_price) \div 2]
                   ELSE GetCurrentPrice(x, ticker)),
        RegisterCallbacks),
        LAMBDA x : PlaceInitialOrders(x, rej)),
        LAMBDA x : IF x.simulation_mode THEN x
                   ELSE [x EXCEPT !.streams = @ + 1]),   \* asyncio.create_task, twice
        NotifyStatus)

\* the except block recording the error but leaving _running set
StartExceptStillRunning(b) ==
    IF b.exc # NoExc THEN [b EXCEPT !.last_error = b.exc] ELSE b

\* the except block of GridBot.start, which re-raises
StartExcept(b) ==
    IF b.exc # NoExc
    THEN [b EXCEPT !.running = FALSE, !.last_error = b.exc]
    ELSE b

\* start without its test of _running
StartUnguarded(b, ticker, rej) == StartExcept(StartTry(b, ticker, rej))

\* GridBot.start
Start(b, ticker, rej) ==
    IF b.running THEN b
    ELSE StartExcept(StartTry(b, ticker, rej))

\* cancel_all_orders without its except clause: the BinanceAPIException
\* propagates to the caller
CancelAllOrdersPropagating(b, api_error) ==
    IF ~connected
    THEN Raise(Log(b, [ev |-> "call", fn |-> "cancel_all_orders"]),
               "Client not connected")
    ELSE IF api_error
    THEN Raise(Log(Log(b, [ev |-> "call", fn |-> "cancel_all_orders"]),
                   [ev |-> "cancelled", failed |-> TRUE]),
               "BinanceAPIException")
    ELSE Log(Log(b, [ev |-> "call", fn |-> "cancel_all_orders"]),
             [ev |-> "cancelled", failed |-> FALSE])

\* BinanceClient.cancel_all_orders; api_error: the exchange answers the
\* request with a BinanceAPIException, which is caught and logged here
CancelAllOrders(b, api_error) ==
    IF ~connected
    THEN Raise(Log(b, [ev |-> "call", fn |-> "cancel_all_orders"]),
               "Client not connected")
    ELSE Log(Log(b, [ev |-> "call", fn |-> "cancel_all_orders"]),
             [ev |-> "cancelled", failed |-> api_error])

\* stop publishing before it clears the open orders
StopPublishingFirst(b, api_error) ==
    IF ~b.running THEN b
    ELSE Then(IF b.simulation_mode THEN [b EXCEPT !.running = FALSE]
              ELSE CancelAllOrders([b EXCEPT !.running = FALSE], api_error),
              LAMBDA x : [NotifyStatus(x) EXCEPT !.open_orders = EmptyDict])

\* stop without self._open_orders.clear()
StopKeepingOpenOrders(b, api_error) ==
    IF ~b.running THEN b
    ELSE Then(IF b.simulation_mode THEN [b EXCEPT !.running = FALSE]
              ELSE CancelAllOrders([b EXCEPT !.running = FALSE], api_error),
              NotifyStatus)

\* GridBot.stop
Stop(b, api_error) ==
    IF ~b.running THEN b
    ELSE Then(IF b.simulation_mode THEN [b EXCEPT !.running = FALSE]
              ELSE CancelAllOrders([b EXCEPT !.running = FALSE], api_error),
              LAMBDA x : NotifyStatus([x EXCEPT !.open_orders = EmptyDict]))

(***************************************************************************)
(* The stream tasks of the client: each message goes to every registered   *)
(* callback in turn; an exception of a callback ends the turn and is       *)
(* caught by the loop of the task.                                         *)
(***************************************************************************)
\* the callback loop of BinanceClient.start_price_stream, n callbacks left
RECURSIVE PriceCallbacks(_, _, _)
PriceCallbacks(b, price, n) ==
    IF n = 0 \/ b.exc # NoExc THEN b
    ELSE PriceCallbacks(OnPriceUpdate(b, price, {}), price, n - 1)

\* the callback loop of BinanceClient._handle_user_message
RECURSIVE OrderCallbacks(_, _, _, _)
OrderCallbacks(b, order, n, rej) ==
    IF n = 0 \/ b.exc # NoExc THEN b
    ELSE OrderCallbacks(OnOrderUpdate(b, order, rej), order, n - 1, rej)

\* except Exception of the stream loops: the exception is logged
Caught(b) ==
    IF b.exc # NoExc
    THEN Log([b EXCEPT !.exc = NoExc], [ev |-> "stream_error", error |-> b.exc])
    ELSE b

(***************************************************************************)
(* RiskManager (bot/risk.py).  A manager is the record of its fields;      *)
(* a method is an operator from the manager to the manager it leaves.      *)
(* Amounts are exact numbers: a percentage is an integer, the fraction     *)
(* max_position_size is held in hundredths, and the inputs below are ones  *)
(* for which every quotient of the source is a whole number.               *)
(***************************************************************************)
NoResult == "None"

\* RiskLimits as RiskManager() builds it from the settings
DefaultLimits ==
    [max_position_size |-> 10, max_open_orders |-> 50, daily_loss_limit |-> 100,
     stop_loss_percent |-> 5, take_profit_percent |-> 10,
     max_consecutive_losses |-> 5, max_drawdown_percent |-> 10]

\* RiskLimits a caller may hand to RiskManager(limits=...)
RiskLimitsSet ==
    {[max_position_size |-> 10, max_open_orders |-> 2, daily_loss_limit |-> 100,
      stop_loss_percent |-> 10, take_profit_percent |-> 10,
      max_consecutive_losses |-> 2, max_drawdown_percent |-> 75],
     [max_position_size |-> 50, max_open_orders |-> 1, daily_loss_limit |-> 50,
      stop_loss_percent |-> 5, take_profit_percent |-> 10,
      max_consecutive_losses |-> 3, max_drawdown_percent |-> 50]}

\* balances update_balance is called with: each quotient
\* (peak - balance) / peak * 100 over them is a whole number
Balances == {0, 50, 100, 200}

\* P&L values record_trade_pnl is called with
PnLs == {-50, 100}

\* arguments of can_place_order: quantity, price and current_open_orders
Quantities == {1}
OrderPrices == {5, 10, 25}
OpenOrderCounts == {0, 2}

\* arguments of check_stop_loss and check_take_profit: the grid's bounds and
\* prices at, next to and away from the thresholds they give (9 and 18 or 19
\* for the stop loss, 33 and 44 for the take profit)
RiskConfigs ==
    {[lower_price |-> 20, upper_price |-> 30, grid_count |-> 2,
      amount_per_grid |-> 5, grid_type |-> "arithmetic"],
     [lower_price |-> 10, upper_price |-> 40, grid_count |-> 2,
      amount_per_grid |-> 2, grid_type |-> "geometric"]}
RiskPrices == {9, 18, 19, 33, 44}

\* RiskMetrics(daily_loss_limit=...)
RiskMetrics(daily_loss_limit) ==
    [total_exposure |-> 0, max_exposure |-> 0, daily_pnl |-> 0,
     daily_loss_limit |-> daily_loss_limit, drawdown |-> 0, max_drawdown |-> 0,
     consecutive_losses |-> 0, stop_loss_triggered |-> FALSE,
     take_profit_triggered |-> FALSE]

\* RiskManager.__init__
RiskManager(limits) ==
    [limits |-> limits, metrics |-> RiskMetrics(limits.daily_loss_limit),
     daily_trades |-> <<>>, peak_balance |-> 0, current_balance |-> 0]

\* sum(self._daily_trades)
RECURSIVE Sum(_)
Sum(xs) == IF xs = <<>> THEN 0 ELSE Head(xs) + Sum(Tail(xs))

\* ((peak - balance) / peak) * 100
DrawdownPercent(peak, balance) == ((peak - balance) * 100) \div peak

\* update_balance from the statement that tests the peak on
TrackDrawdown(rm, balance) ==
    IF rm.peak_balance > 0
    THEN [rm EXCEPT
            !.metrics.drawdown = DrawdownPercent(rm.peak_balance, balance),
            !.metrics.max_drawdown =
                IF DrawdownPercent(rm.peak_balance, balance) > @
                THEN DrawdownPercent(rm.peak_balance, balance) ELSE @]
    ELSE rm

\* update_balance taking each balance for the peak
update_balance_peak_is_current(rm, balance) ==
    TrackDrawdown([rm EXCEPT !.current_balance = balance,
                             !.peak_balance = balance],
                  balance)

\* RiskManager.update_balance
update_balance(rm, balance) ==
    TrackDrawdown([rm EXCEPT !.current_balance = balance,
                             !.peak_balance = IF balance > @ THEN balance ELSE @],
                  balance)

\* record_trade_pnl taking the last value for the daily P&L
record_trade_pnl_last_only(rm, pnl) ==
    [rm EXCEPT !.daily_trades = Append(@, pnl),
               !.metrics.daily_pnl = pnl,
               !.metrics.consecutive_losses = IF pnl < 0 THEN @ + 1 ELSE 0]

\* record_trade_pnl counting a zero as a loss
record_trade_pnl_zero_is_loss(rm, pnl) ==
    [rm EXCEPT !.daily_trades = Append(@, pnl),
               !.metrics.daily_pnl = Sum(Append(rm.daily_trades, pnl)),
               !.metrics.consecutive_losses = IF pnl <= 0 THEN @ + 1 ELSE 0]

\* RiskManager.record_trade_pnl
record_trade_pnl(rm, pnl) ==
    [rm EXCEPT !.daily_trades = Append(@, pnl),
               !.metrics.daily_pnl = Sum(Append(rm.daily_trades, pnl)),
               !.metrics.consecutive_losses = IF pnl < 0 THEN @ + 1 ELSE 0]

\* the reasons can_place_order returns; one that the source formats with a
\* limit is the text with the limit in its place
DailyLossReason == <<"Daily loss limit reached">>
MaxOpenOrdersReason(rm) ==
    <<"Max open orders (", rm.limits.max_open_orders, ") reached">>
PositionSizeReason == <<"Order exceeds max position size">>
ConsecutiveLossesReason(rm) ==
    <<"Max consecutive losses (", rm.limits.max_consecutive_losses, ") reached">>
DrawdownReason(rm) ==
    <<"Max drawdown (", rm.limits.max_drawdown_percent, "%) reached">>
OK == <<"OK">>

\* the checks of can_place_order, each a condition under which it rejects
DailyLossCheck(rm) == rm.metrics.daily_pnl <= -rm.limits.daily_loss_limit
MaxOpenOrdersCheck(rm, current_open_orders) ==
    current_open_orders >= rm.limits.max_open_orders
\* the position-size check left out while the balance is zero
PositionSizeCheckFunded(rm, quantity, price) ==
    /\ rm.current_balance > 0
    /\ quantity * price * 100 > rm.limits.max_position_size * rm.current_balance

PositionSizeCheck(rm, quantity, price) ==
    quantity * price * 100 > rm.limits.max_position_size * rm.current_balance
ConsecutiveLossesCheck(rm) ==
    rm.metrics.consecutive_losses >= rm.limits.max_consecutive_losses
DrawdownCheck(rm) == rm.metrics.drawdown >= rm.limits.max_drawdown_percent

\* can_place_order testing the open orders before the daily loss
can_place_order_orders_first(rm, side, quantity, price, current_open_orders) ==
    IF MaxOpenOrdersCheck(rm, current_open_orders)
    THEN <<FALSE, MaxOpenOrdersReason(rm)>>
    ELSE IF DailyLossCheck(rm) THEN <<FALSE, DailyLossReason>>
    ELSE IF PositionSizeCheck(rm, quantity, price)
    THEN <<FALSE, PositionSizeReason>>
    ELSE IF ConsecutiveLossesCheck(rm)
    THEN <<FALSE, ConsecutiveLossesReason(rm)>>
    ELSE IF DrawdownCheck(rm) THEN <<FALSE, DrawdownReason(rm)>>
    ELSE <<TRUE, OK>>

\* RiskManager.can_place_order: the tuple (allowed, reason) it returns
can_place_order(rm, side, quantity, price, current_open_orders) ==
    IF DailyLossCheck(rm) THEN <<FALSE, DailyLossReason>>
    ELSE IF MaxOpenOrdersCheck(rm, current_open_orders)
    THEN <<FALSE, MaxOpenOrdersReason(rm)>>
    ELSE IF PositionSizeCheck(rm, quantity, price)
    THEN <<FALSE, PositionSizeReason>>
    ELSE IF ConsecutiveLossesCheck(rm)
    THEN <<FALSE, ConsecutiveLossesReason(rm)>>
    ELSE IF DrawdownCheck(rm) THEN <<FALSE, DrawdownReason(rm)>>
    ELSE <<TRUE, OK>>

\* current_price <= lower_price * (1 - stop_loss_percent / 100)
AtStopLoss(rm, price, grid_config) ==
    price * 100
        <= grid_config.lower_price * (100 - rm.limits.stop_loss_percent)

\* current_price >= upper_price * (1 + take_profit_percent / 100)
AtTakeProfit(rm, price, grid_config) ==
    price * 100
        >= grid_config.upper_price * (100 + rm.limits.take_profit_percent)

\* check_stop_loss triggering from the grid's lower bound down
check_stop_loss_at_lower_bound(rm, price, grid_config) ==
    IF price <= grid_config.lower_price
    THEN <<[rm EXCEPT !.metrics.stop_loss_triggered = TRUE], TRUE>>
    ELSE <<rm, FALSE>>

\* RiskManager.check_stop_loss: the manager it leaves and what it returns
check_stop_loss(rm, price, grid_config) ==
    IF AtStopLoss(rm, price, grid_config)
    THEN <<[rm EXCEPT !.metrics.stop_loss_triggered = TRUE], TRUE>>
    ELSE <<rm, FALSE>>

\* check_take_profit assigning the flag the outcome of each check
check_take_profit_assigning(rm, price, grid_config) ==
    <<[rm EXCEPT !.metrics.take_profit_triggered =
                    AtTakeProfit(rm, price, grid_config)],
      AtTakeProfit(rm, price, grid_config)>>

\* RiskManager.check_take_profit
check_take_profit(rm, price, grid_config) ==
    IF AtTakeProfit(rm, price, grid_config)
    THEN <<[rm EXCEPT !.metrics.take_profit_triggered = TRUE], TRUE>>
    ELSE <<rm, FALSE>>

\* reset_daily_metrics clearing the consecutive-loss counter as well
reset_daily_metrics_clearing_losses(rm) ==
    [rm EXCEPT !.daily_trades = <<>>,
               !.metrics.daily_pnl = 0,
               !.metrics.consecutive_losses = 0,
               !.metrics.stop_loss_triggered = FALSE,
               !.metrics.take_profit_triggered = FALSE]

\* RiskManager.reset_daily_metrics
reset_daily_metrics(rm) ==
    [rm EXCEPT !.daily_trades = <<>>,
               !.metrics.daily_pnl = 0,
               !.metrics.stop_loss_triggered = FALSE,
               !.metrics.take_profit_triggered = FALSE]

(***************************************************************************)
(* A fill handler in two steps.  In live mode _handle_filled_order awaits  *)
(* the exchange's answer to the create_order request of its counter-order; *)
(* while it waits the event loop runs other coroutines.                    *)
(***************************************************************************)
\* no handler is suspended
NoPending ==
    [pc |-> "idle", side |-> BUY, level |-> 0, stopped |-> FALSE,
     cancelled |-> FALSE, order_id |-> NoId]

\* the level index of the counter-order of a filled order
CounterLevel(order) ==
    IF order.side = BUY THEN order.grid_level + 1 ELSE order.grid_level - 1

\* _on_order_update and _handle_filled_order reach the create_order request
\* of place_limit_order for this report
ReachesCreateOrder(b, order) ==
    /\ ~simulation_mode
    /\ connected
    /\ order.status = FILLED
    /\ order.order_id \in DOMAIN b.open_orders
    /\ order.grid_level # NoLevel
    /\ order.grid_level < Len(b.grid_levels)
    /\ CounterLevel(order) >= 0
    /\ CounterLevel(order) < Len(b.grid_levels)
    /\ IF order.side = BUY
       THEN ~b.grid_levels[CounterLevel(order) + 1].has_sell_order
       ELSE ~b.grid_levels[CounterLevel(order) + 1].has_buy_order
    /\ round_price(b.grid_levels[CounterLevel(order) + 1].price)
         * round_quantity(config.amount_per_grid) >= symbol_info.min_notional

\* the statements of _on_order_update and _handle_filled_order before the
\* call that places the counter-order
FilledToAwait(b, order) ==
    IF order.side = BUY
    THEN [b EXCEPT !.open_orders = DictDel(@, order.order_id),
                   !.trades = Append(@, [trade_id |-> Len(b.trades),
                                         order_id |-> order.order_id,
                                         side |-> order.side,
                                         price |-> order.price,
                                         quantity |-> order.quantity]),
                   !.grid_levels[order.grid_level + 1].has_buy_order = FALSE,
                   !.grid_levels[order.grid_level + 1].buy_order_id = NoId]
    ELSE [b EXCEPT !.open_orders = DictDel(@, order.order_id),
                   !.trades = Append(@, [trade_id |-> Len(b.trades),
                                         order_id |-> order.order_id,
                                         side |-> order.side,
                                         price |-> order.price,
                                         quantity |-> order.quantity]),
                   !.grid_levels[order.grid_level + 1].has_sell_order = FALSE,
                   !.grid_levels[order.grid_level + 1].sell_order_id = NoId,
                   !.total_profit =
                       IF Len(get_grid_levels(config)) > 1
                       THEN @ + Spacing * order.quantity ELSE @,
                   !.daily_profit =
                       IF Len(get_grid_levels(config)) > 1
                       THEN @ + Spacing * order.quantity ELSE @]

\* the rest of the handler once the exchange has answered: the placement is
\* recorded or its failure logged, and the status is published
AwaitedPlacement(b, side, i, rej) ==
    Then(IF side = SELL
         THEN SellOrderPlaced(ProviderPlace(b, SELL, b.grid_levels[i + 1], rej), i)
         ELSE BuyOrderPlaced(ProviderPlace(b, BUY, b.grid_levels[i + 1], rej), i),
         NotifyStatus)

(***************************************************************************)
(* start in two steps.  In live mode _place_initial_orders awaits the      *)
(* exchange's answer to each create_order request; the stream tasks of an  *)
(* earlier run deliver their messages while it waits.                      *)
(***************************************************************************)
\* the loop of _place_initial_orders over the level indexes i .. n - 1
RECURSIVE PlaceInitialUpTo(_, _, _)
PlaceInitialUpTo(b, i, n) ==
    IF i >= n \/ b.exc # NoExc THEN b
    ELSE PlaceInitialUpTo(PlaceInitialStep(b, i, {}), i + 1, n)

\* the try block of start up to the iteration of _place_initial_orders for
\* level index i, the earlier placements accepted
StartToLevel(b, ticker, i) ==
    Then(Then(Then(
        InitializeGridLevels([b EXCEPT !.running = TRUE, !.last_error = NoError]),
        LAMBDA x : GetCurrentPrice(x, ticker)),
        RegisterCallbacks),
        LAMBDA x : IF x.current_price = NoPrice \/ x.current_price = 0
                   THEN Raise(x, "Current price not available")
                   ELSE PlaceInitialUpTo(x, 0, i))

\* the iteration for level index i reaches the create_order request of
\* place_limit_order
AwaitsInitialPlacement(b, i) ==
    /\ b.exc = NoExc
    /\ i < Len(b.grid_levels)
    /\ \/ /\ b.grid_levels[i + 1].price < b.current_price
          /\ ~b.grid_levels[i + 1].has_buy_order
       \/ /\ b.grid_levels[i + 1].price > b.current_price
          /\ ~b.grid_levels[i + 1].has_sell_order
    /\ round_price(b.grid_levels[i + 1].price)
         * round_quantity(config.amount_per_grid) >= symbol_info.min_notional

\* the rest of start once the exchange has answered the request for level
\* index i: the placement is recorded or its failure logged, the loop goes
\* on, the stream tasks are created and the status is published
StartResumed(b, side, i, rej) ==
    StartExcept(
        Then(Then(Then(
            IF side = SELL
            THEN SellOrderPlaced(ProviderPlace(b, SELL, b.grid_levels[i + 1], rej), i)
            ELSE BuyOrderPlaced(ProviderPlace(b, BUY, b.grid_levels[i + 1], rej), i),
            LAMBDA x : PlaceInitialLoop(x, i + 1, rej)),
            LAMBDA x : [x EXCEPT !.streams = @ + 1]),
            NotifyStatus))

(***************************************************************************)
(* The risk report.  0.8 and 0.5 of a limit are compared in tenths.        *)
(***************************************************************************)
\* _get_risk_status testing the consecutive losses before the drawdown and
\* the daily loss
get_risk_status_warning_first(rm) ==
    IF rm.metrics.stop_loss_triggered THEN "STOPPED"
    ELSE IF rm.metrics.consecutive_losses >= rm.limits.max_consecutive_losses - 1
    THEN "WARNING"
    ELSE IF 10 * rm.metrics.drawdown >= 8 * rm.limits.max_drawdown_percent
    THEN "HIGH_RISK"
    ELSE IF 10 * rm.metrics.daily_pnl <= -(8 * rm.limits.daily_loss_limit)
    THEN "HIGH_RISK"
    ELSE IF 10 * rm.metrics.drawdown >= 5 * rm.limits.max_drawdown_percent
    THEN "MODERATE"
    ELSE "NORMAL"

\* RiskManager._get_risk_status
get_risk_status(rm) ==
    IF rm.metrics.stop_loss_triggered THEN "STOPPED"
    ELSE IF 10 * rm.metrics.drawdown >= 8 * rm.limits.max_drawdown_percent
    THEN "HIGH_RISK"
    ELSE IF 10 * rm.metrics.daily_pnl <= -(8 * rm.limits.daily_loss_limit)
    THEN "HIGH_RISK"
    ELSE IF rm.metrics.consecutive_losses >= rm.limits.max_consecutive_losses - 1
    THEN "WARNING"
    ELSE IF 10 * rm.metrics.drawdown >= 5 * rm.limits.max_drawdown_percent
    THEN "MODERATE"
    ELSE "NORMAL"

\* RiskManager.get_risk_report
get_risk_report(rm) ==
    [daily_pnl |-> rm.metrics.daily_pnl,
     daily_loss_limit |-> rm.limits.daily_loss_limit,
     daily_pnl_percent |->
        IF rm.limits.daily_loss_limit > 0
        THEN (rm.metrics.daily_pnl * 100) \div rm.limits.daily_loss_limit
        ELSE 0,
     current_drawdown |-> rm.metrics.drawdown,
     max_drawdown |-> rm.metrics.max_drawdown,
     consecutive_losses |-> rm.metrics.consecutive_losses,
     stop_loss_triggered |-> rm.metrics.stop_loss_triggered,
     take_profit_triggered |-> rm.metrics.take_profit_triggered,
     risk_status |-> get_risk_status(rm)]

(***************************************************************************)
(* Actions: one per handler.  Commit writes the engine state a handler     *)
(* leaves and the observation of the handler.                              *)
(***************************************************************************)
Observe(b, op, arg) ==
    [op |-> op, arg |-> arg, was_running |-> running,
     raised |-> b.exc # NoExc, exc |-> b.exc, trace |-> b.trace]

CommitFields(b, op, arg, max_order_id, max_streams) ==
    /\ Len(b.trades) <= MaxTrades
    /\ b.next_order_id <= max_order_id + 1
    /\ b.callbacks <= MaxStarts
    /\ b.streams <= max_streams
    /\ running' = b.running
    /\ current_price' = b.current_price
    /\ grid_levels' = b.grid_levels
    /\ open_orders' = b.open_orders
    /\ trades' = b.trades
    /\ total_profit' = b.total_profit
    /\ daily_profit' = b.daily_profit
    /\ last_error' = b.last_error
    /\ sim_orders' = b.sim_orders
    /\ callbacks' = b.callbacks
    /\ streams' = b.streams
    /\ next_order_id' = b.next_order_id
    /\ exchange_orders' = b.exchange_orders
    /\ last' = Observe(b, op, arg)
    /\ UNCHANGED <<simulation_mode, connected, symbol_info, now,
                   status_callbacks, risk_manager, risk_last>>

\* a handler of the engine, which leaves the second engine alone
CommitWithin(b, op, arg, max_order_id, max_streams) ==
    /\ CommitFields(b, op, arg, max_order_id, max_streams)
    /\ UNCHANGED twin

CommitEngine(b, op, arg) == CommitWithin(b, op, arg, MaxOrderId, MaxStreams)

\* a handler that runs to its end while no other handler is suspended, or
\* leaves the suspended one as it is
Commit(b, op, arg) ==
    /\ CommitEngine(b, op, arg)
    /\ UNCHANGED pending

LevelIndexes == 0..config.grid_count

\* The create_order requests of start() the exchange answers with an error:
\* none, or the one for level 1.
RejectSets == {{}, {1}}

\* await bot.start()
DoStart ==
    \E ticker \in IF simulation_mode \/ running THEN {NoPrice}
                  ELSE TickerPrices \cup {0, NoPrice},
       rej \in IF simulation_mode \/ running THEN {{}} ELSE RejectSets :
        /\ Commit(Start(Bot, ticker, rej), "start", NoPrice)
        /\ UNCHANGED config

\* await bot.stop()
DoStop ==
    \E api_error \in IF simulation_mode \/ ~running THEN {FALSE} ELSE BOOLEAN :
        /\ Commit(Stop(Bot, api_error), "stop", NoPrice)
        /\ UNCHANGED config

\* GridBot.simulate_price_movement
simulate_price_movement(b, new_price) ==
    IF ~b.simulation_mode THEN Raise(b, "Not in simulation mode")
    ELSE OnPriceUpdate(b, new_price, {})

\* await bot.simulate_price_movement(new_price)
DoSimulatePriceMovement ==
    \E new_price \in IF simulation_mode THEN Prices ELSE {20} :
        /\ Commit(simulate_price_movement(Bot, new_price),
                  "simulate_price_movement", new_price)
        /\ UNCHANGED config

\* update_config without its test of _running
update_config_unguarded(b) == b

\* GridBot.update_config: the engine state it leaves, with the exception it
\* raises when the engine is running; the assignment of config is the
\* action's
update_config(b) ==
    IF b.running THEN Raise(b, "Cannot update config while bot is running")
    ELSE b

\* bot.update_config(config)
DoUpdateConfig ==
    \E c \in Configs :
        /\ Commit(update_config(Bot), "update_config", c)
        /\ config' = IF update_config(Bot).exc # NoExc THEN config ELSE c

\* The arguments a client may post to /api/config.  The first five satisfy
\* every constraint of the configuration (one with the largest grid count);
\* the next five break one Field constraint each; the last three have
\* positive bounds with the upper one at or below the lower one.  Each
\* quotient and root get_grid_levels takes over them is a whole number.
ConfigRequests ==
    { [lower_price |-> 10, upper_price |-> 30, grid_count |-> 2,
       amount_per_grid |-> 5, grid_type |-> "arithmetic"],
      [lower_price |-> 10, upper_price |-> 40, grid_count |-> 3,
       amount_per_grid |-> 5, grid_type |-> "arithmetic"],
      [lower_price |-> 10, upper_price |-> 40, grid_count |-> 2,
       amount_per_grid |-> 2, grid_type |-> "geometric"],
      [lower_price |-> 10, upper_price |-> 80, grid_count |-> 3,
       amount_per_grid |-> 2, grid_type |-> "geometric"],
      [lower_price |-> 100, upper_price |-> 300, grid_count |-> 100,
       amount_per_grid |-> 5, grid_type |-> "arithmetic"],
      [lower_price |-> 10, upper_price |-> 30, grid_count |-> 1,
       amount_per_grid |-> 5, grid_type |-> "arithmetic"],
      [lower_price |-> 100, upper_price |-> 302, grid_count |-> 101,
       amount_per_grid |-> 5, grid_type |-> "arithmetic"],
      [lower_price |-> 0, upper_price |-> 30, grid_count |-> 2,
       amount_per_grid |-> 5, grid_type |-> "arithmetic"],
      [lower_price |-> 10, upper_price |-> 0, grid_count |-> 2,
       amount_per_grid |-> 5, grid_type |-> "arithmetic"],
      [lower_price |-> 10, upper_price |-> 30, grid_count |-> 2,
       amount_per_grid |-> 0, grid_type |-> "arithmetic"],
      [lower_price |-> 30, upper_price |-> 10, grid_count |-> 2,
       amount_per_grid |-> 5, grid_type |-> "arithmetic"],
      [lower_price |-> 20, upper_price |-> 20, grid_count |-> 2,
       amount_per_grid |-> 5, grid_type |-> "arithmetic"],
      [lower_price |-> 20, upper_price |-> 20, grid_count |-> 2,
       amount_per_grid |-> 5, grid_type |-> "geometric"] }

\* the Field constraints of GridConfig, which its construction validates
FieldsValid(r) ==
    /\ r.upper_price > 0
    /\ r.lower_price > 0
    /\ r.grid_count >= 2
    /\ r.grid_count <= 100
    /\ r.amount_per_grid > 0

\* the /api/config endpoint: the engine state it leaves, with the exception
\* it raises; the assignment of config is the action's
post_config(b, r) ==
    IF b.running THEN Raise(b, "Cannot update config while bot is running")
    ELSE IF ~FieldsValid(r) THEN Raise(b, "ValidationError")
    ELSE update_config(b)

\* POST /api/config with the request r
DoPostConfig ==
    \E r \in ConfigRequests :
        /\ Commit(post_config(Bot, r), "post_config", r)
        /\ config' = IF post_config(Bot, r).exc # NoExc THEN config ELSE r

\* a ticker message on a price stream task
StreamPrice ==
    /\ streams > 0
    /\ \E price \in StreamPrices :
        /\ Commit(Caught(PriceCallbacks(Bot, price, callbacks)),
                  "price_update", price)
        /\ UNCHANGED config

\* The Order an executionReport carries: the exchange's record of the order
\* with the reported status; a report for an order the engine did not place
\* carries no grid level.
ForeignOrder ==
    [order_id |-> <<0>>, side |-> BUY, price |-> 10, quantity |-> 1,
     filled_quantity |-> 0, status |-> NEW_, grid_level |-> NoLevel]

Report(id, status) ==
    LET o == IF id \in DOMAIN exchange_orders THEN exchange_orders[id]
             ELSE ForeignOrder
    IN [o EXCEPT !.status = status,
                 !.filled_quantity = IF status = FILLED THEN o.quantity ELSE 0]

\* The reports a user stream may carry: any status for an order the exchange
\* holds, and a fill of an order the engine did not place.
Reports ==
    {Report(id, status) : id \in DOMAIN exchange_orders, status \in ReportStatuses}
    \cup {Report(<<0>>, FILLED)}

\* an executionReport message on a user stream task; reject: the exchange
\* answers the create_order request of this handler with an error
StreamOrderUpdate ==
    /\ streams > 0
    /\ \E order \in Reports :
       \E rej \in IF order.status = FILLED THEN {{}, LevelIndexes} ELSE {{}} :
        /\ Commit(Caught(OrderCallbacks(Bot, order, callbacks, rej)),
                  "order_update", order)
        /\ UNCHANGED config

\* Reports of a fill whose clientOrderId does not begin with grid_<level>:
\* _extract_grid_level returns None for it, whatever order the id names.
LevellessReports ==
    {[Report(id, FILLED) EXCEPT !.grid_level = NoLevel] :
        id \in DOMAIN exchange_orders}

\* an executionReport message with such a clientOrderId on a user stream task
StreamLevellessOrderUpdate ==
    /\ streams > 0
    /\ \E order \in LevellessReports :
        /\ Commit(Caught(OrderCallbacks(Bot, order, callbacks, {})),
                  "order_update", order)
        /\ UNCHANGED config

\* an executionReport of a fill on the user stream task whose handler runs
\* up to the create_order request of its counter-order and waits there
FillRotationAwaits ==
    /\ streams > 0
    /\ callbacks = 1
    /\ pending.pc # "awaiting"
    /\ \E order \in Reports :
        /\ ReachesCreateOrder(Bot, order)
        /\ CommitEngine(FilledToAwait(Bot, order), "fill_rotation_awaits", order)
        /\ pending' = [NoPending EXCEPT
                          !.pc = "awaiting",
                          !.side = IF order.side = BUY THEN SELL ELSE BUY,
                          !.level = CounterLevel(order)]
        /\ UNCHANGED config

\* the exchange answers the create_order request, with the order or with an
\* error, and the suspended handler runs to its end
FillRotationResumes ==
    /\ pending.pc = "awaiting"
    /\ \E rej \in {{}, {pending.level}} :
        /\ CommitEngine(AwaitedPlacement(Bot, pending.side, pending.level, rej),
                        "fill_rotation_resumes", NoPrice)
        /\ pending' = [pending EXCEPT
                          !.pc = "done",
                          !.order_id = IF rej = {} THEN <<next_order_id>> ELSE NoId]
        /\ UNCHANGED config

\* await bot.stop(), also while a fill handler waits for the exchange.
\* before: the exchange processed the waiting create_order request before
\* the cancel-all request, which then cancelled the order it created.
DoStopInFlight ==
    \E api_error \in IF ~running THEN {FALSE} ELSE BOOLEAN :
    \E before \in IF running /\ pending.pc = "awaiting" THEN BOOLEAN ELSE {FALSE} :
        /\ CommitEngine(Stop(Bot, api_error), "stop", NoPrice)
        /\ pending' = IF running /\ pending.pc = "awaiting"
                      THEN [pending EXCEPT !.stopped = TRUE,
                                           !.cancelled = before /\ ~api_error]
                      ELSE pending
        /\ UNCHANGED config

\* await bot.start() on a live engine, running up to the create_order
\* request of the initial order of one level and waiting there
StartAwaitsPlacement ==
    /\ ~simulation_mode
    /\ ~running
    /\ pending.pc \notin {"awaiting", "starting"}
    /\ \E ticker \in TickerPrices, i \in LevelIndexes :
        /\ AwaitsInitialPlacement(StartToLevel(Bot, ticker, i), i)
        /\ CommitWithin(StartToLevel(Bot, ticker, i), "start_awaits", ticker,
                        MaxRestartOrderId, MaxRestartStreams)
        /\ pending' = [NoPending EXCEPT
                          !.pc = "starting",
                          !.side = IF get_grid_levels(config)[i + 1] < ticker
                                   THEN BUY ELSE SELL,
                          !.level = i]
        /\ UNCHANGED config

\* the exchange answers the create_order request, with the order or with an
\* error, and the suspended start runs to its end
StartResumes ==
    /\ pending.pc = "starting"
    /\ \E rej \in {{}, {pending.level}} :
        /\ CommitWithin(StartResumed(Bot, pending.side, pending.level, rej),
                        "start_resumes", NoPrice,
                        MaxRestartOrderId, MaxRestartStreams)
        /\ pending' = [pending EXCEPT
                          !.pc = "started",
                          !.order_id = IF rej = {} THEN <<next_order_id>> ELSE NoId]
        /\ UNCHANGED config

\* an executionReport message on a user stream task of an engine that may
\* have been restarted; its handler runs to its end, the exchange answering
\* its create_order request at once
StreamOrderUpdateRestarted ==
    /\ streams > 0
    /\ \E order \in Reports :
        /\ CommitWithin(Caught(OrderCallbacks(Bot, order, callbacks, {})),
                        "order_update", order,
                        MaxRestartOrderId, MaxRestartStreams)
        /\ pending' = pending
        /\ UNCHANGED config

\* await bot.start() while no fill handler is suspended
DoStartSettled == pending.pc \notin {"awaiting", "starting"} /\ DoStart

\* the start price of a simulation: the middle of the grid
MidPrice == (config.upper_price + config.lower_price) \div 2

\* the id of the live engine's open order at the level and on the side of
\* order o of the simulation
LiveOrderFor(b, o) ==
    IF o.side = BUY THEN b.grid_levels[o.grid_level + 1].buy_order_id
    ELSE b.grid_levels[o.grid_level + 1].sell_order_id

HasLiveOrderFor(b, o) ==
    /\ o.grid_level # NoLevel
    /\ o.grid_level < Len(b.grid_levels)
    /\ IF o.side = BUY THEN b.grid_levels[o.grid_level + 1].has_buy_order
       ELSE b.grid_levels[o.grid_level + 1].has_sell_order
    /\ LiveOrderFor(b, o) \in DOMAIN b.open_orders
    /\ LiveOrderFor(b, o) \in DOMAIN exchange_orders

\* the user stream reports to the live engine, one after the other, the
\* fills the simulation has handled
RECURSIVE DeliverFills(_, _, _)
DeliverFills(b, fills, k) ==
    IF k > Len(fills) THEN b
    ELSE DeliverFills(
            Caught(OrderCallbacks(
                b, Report(LiveOrderFor(b, fills[k].order), FILLED), b.callbacks, {})),
            fills, k + 1)

\* has the exchange's client refused a placement of the live engine
PlacementFailed(b) == \E k \in 1..Len(b.trace) : b.trace[k].ev = "order_failed"

\* both engines are started, the ticker of the live one reporting the price
\* the simulation starts from
TwinStart ==
    /\ ~simulation_mode
    /\ ~running
    /\ ~twin.running
    /\ CommitFields(Start(Bot, MidPrice, {}), "twin_start", MidPrice,
                    MaxRestartOrderId, MaxRestartStreams)
    /\ twin' = [Start(twin, NoPrice, {}) EXCEPT
                   !.trace = <<>>,
                   !.rejected = @ \/ PlacementFailed(Start(Bot, MidPrice, {}))]
    /\ UNCHANGED <<config, pending>>

\* a price update of the simulation, whose fills the exchange reports to
\* the live engine in the same order
TwinPriceUpdate ==
    /\ ~simulation_mode
    /\ twin.running
    /\ \E new_price \in Prices :
        /\ \A k \in 1..Len(FillsOf(simulate_price_movement(twin, new_price).trace)) :
              HasLiveOrderFor(Bot,
                  FillsOf(simulate_price_movement(twin, new_price).trace)[k].order)
        /\ CommitFields(
              DeliverFills(Bot,
                  FillsOf(simulate_price_movement(twin, new_price).trace), 1),
              "twin_price_update", new_price,
              MaxRestartOrderId, MaxRestartStreams)
        /\ twin' = [simulate_price_movement(twin, new_price) EXCEPT
                       !.trace = <<>>,
                       !.rejected = @ \/ PlacementFailed(
                           DeliverFills(Bot,
                               FillsOf(simulate_price_movement(twin, new_price).trace),
                               1))]
    /\ UNCHANGED <<config, pending>>

\* both engines are stopped, the exchange serving the cancel-all request
TwinStop ==
    /\ ~simulation_mode
    /\ running
    /\ twin.running
    /\ CommitFields(Stop(Bot, FALSE), "twin_stop", NoPrice,
                    MaxRestartOrderId, MaxRestartStreams)
    /\ twin' = [Stop(twin, FALSE) EXCEPT !.trace = <<>>]
    /\ UNCHANGED <<config, pending>>

\* a millisecond passes for the two engines
TwinTick ==
    /\ ~simulation_mode
    /\ now < MaxTime
    /\ now' = now + 1
    /\ UNCHANGED <<simulation_mode, connected, symbol_info, config, running,
                   current_price, grid_levels, open_orders, trades,
                   total_profit, daily_profit, last_error, sim_orders,
                   callbacks, streams, next_order_id, exchange_orders, last,
                   status_callbacks, pending, twin, risk_manager, risk_last>>

\* bot.on_status_update(callback), with a callback that returns or raises
DoOnStatusUpdate ==
    \E callback \in {Returns, Raises} :
        /\ Len(status_callbacks) < MaxSubscribers
        /\ status_callbacks' = Append(status_callbacks, callback)
        /\ last' = Observe(Bot, "on_status_update", callback)
        /\ UNCHANGED <<simulation_mode, connected, symbol_info, config, running,
                       current_price, grid_levels, open_orders, trades,
                       total_profit, daily_profit, last_error, sim_orders,
                       callbacks, streams, next_order_id, exchange_orders, now,
                       pending, twin, risk_manager, risk_last>>

\* a millisecond passes (the clock is read by _simulate_place_order only)
Tick ==
    /\ simulation_mode
    /\ now < MaxTime
    /\ now' = now + 1
    /\ UNCHANGED <<simulation_mode, connected, symbol_info, config, running,
                   current_price, grid_levels, open_orders, trades,
                   total_profit, daily_profit, last_error, sim_orders,
                   callbacks, streams, next_order_id, exchange_orders, last,
                   status_callbacks, pending, twin, risk_manager, risk_last>>

\* GridBot(client, simulation_mode=True) as its constructor leaves it
FreshSimulation ==
    [simulation_mode |-> TRUE, running |-> FALSE, current_price |-> NoPrice,
     grid_levels |-> <<>>, open_orders |-> EmptyDict, trades |-> <<>>,
     total_profit |-> 0, daily_profit |-> 0, last_error |-> NoError,
     sim_orders |-> <<>>, callbacks |-> 0, streams |-> 0, next_order_id |-> 1,
     exchange_orders |-> EmptyDict, trace |-> <<>>, exc |-> NoExc,
     rejected |-> FALSE]

\* GridBot.__init__ with a client that is connected or not, the exchange's
\* filters for the trading pair being one of symbol_infos
InitEngineWith(symbol_infos) ==
    /\ simulation_mode \in BOOLEAN
    /\ connected \in IF simulation_mode THEN {FALSE} ELSE BOOLEAN
    /\ symbol_info \in IF connected THEN symbol_infos ELSE {NoSymbolInfo}
    /\ config \in Configs
    /\ running = FALSE
    /\ current_price = NoPrice
    /\ grid_levels = <<>>
    /\ open_orders = EmptyDict
    /\ trades = <<>>
    /\ total_profit = 0
    /\ daily_profit = 0
    /\ last_error = NoError
    /\ sim_orders = <<>>
    /\ callbacks = 0
    /\ streams = 0
    /\ next_order_id = 1
    /\ exchange_orders = EmptyDict
    /\ now = 0
    /\ last = [op |-> "init", arg |-> NoPrice, was_running |-> FALSE,
               raised |-> FALSE, exc |-> NoExc, trace |-> <<>>]
    /\ pending = NoPending
    /\ twin = FreshSimulation

InitEngine == InitEngineWith(SymbolInfos)

\* the application as lifespan() constructs it: the engine, and a RiskManager
\* with the limits of the settings
Init ==
    /\ InitEngine
    /\ status_callbacks = <<Returns>>          \* broadcast_status
    /\ risk_manager = RiskManager(DefaultLimits)
    /\ risk_last = [op |-> "init", args |-> <<>>, result |-> NoResult]

Next ==
    \/ DoStart
    \/ DoStop
    \/ DoSimulatePriceMovement
    \/ DoUpdateConfig
    \/ StreamPrice
    \/ StreamOrderUpdate
    \/ Tick

Spec == Init /\ [][Next]_vars

(***************************************************************************)
(* The RiskManager on its own: its methods called in any order with any    *)
(* of the arguments above.  No method touches the engine.                  *)
(***************************************************************************)
engine_vars == <<simulation_mode, connected, symbol_info, config, running,
                 current_price, grid_levels, open_orders, trades,
                 total_profit, daily_profit, last_error, sim_orders,
                 callbacks, streams, next_order_id, exchange_orders, now, last,
                 status_callbacks, pending, twin>>

\* a call of method op with args left the manager rm and returned result
RiskCall(rm, op, args, result) ==
    /\ Len(rm.daily_trades) <= MaxDailyTrades
    /\ rm.metrics.consecutive_losses <= MaxLosses
    /\ risk_manager' = rm
    /\ risk_last' = [op |-> op, args |-> args, result |-> result]
    /\ UNCHANGED engine_vars

DoUpdateBalance ==
    \E balance \in Balances :
        RiskCall(update_balance(risk_manager, balance),
                 "update_balance", <<balance>>, NoResult)

DoRecordTradePnl ==
    \E pnl \in PnLs :
        RiskCall(record_trade_pnl(risk_manager, pnl),
                 "record_trade_pnl", <<pnl>>, NoResult)

DoCanPlaceOrder ==
    \E side \in {BUY, SELL}, quantity \in Quantities, price \in OrderPrices,
       current_open_orders \in OpenOrderCounts :
        RiskCall(risk_manager, "can_place_order",
                 <<side, quantity, price, current_open_orders>>,
                 can_place_order(risk_manager, side, quantity, price,
                                 current_open_orders))

DoCheckStopLoss ==
    \E price \in RiskPrices, grid_config \in RiskConfigs :
        RiskCall(check_stop_loss(risk_manager, price, grid_config)[1],
                 "check_stop_loss", <<price, grid_config>>,
                 check_stop_loss(risk_manager, price, grid_config)[2])

DoCheckTakeProfit ==
    \E price \in RiskPrices, grid_config \in RiskConfigs :
        RiskCall(check_take_profit(risk_manager, price, grid_config)[1],
                 "check_take_profit", <<price, grid_config>>,
                 check_take_profit(risk_manager, price, grid_config)[2])

DoResetDailyMetrics ==
    RiskCall(reset_daily_metrics(risk_manager), "reset_daily_metrics", <<>>,
             NoResult)

\* a RiskManager built with limits of the caller's, next to an idle engine
InitRisk ==
    /\ InitEngine
    /\ simulation_mode
    /\ config.grid_type = "arithmetic"
    /\ status_callbacks = <<>>
    /\ risk_manager \in {RiskManager(limits) : limits \in RiskLimitsSet}
    /\ risk_last = [op |-> "init", args |-> <<>>, result |-> NoResult]

NextRisk ==
    \/ DoUpdateBalance
    \/ DoRecordTradePnl
    \/ DoCanPlaceOrder
    \/ DoCheckStopLoss
    \/ DoCheckTakeProfit
    \/ DoResetDailyMetrics

SpecRisk == InitRisk /\ [][NextRisk]_vars

(***************************************************************************)
(* The RiskManager and its report.                                         *)
(***************************************************************************)
DoGetRiskReport ==
    RiskCall(risk_manager, "get_risk_report", <<>>, get_risk_report(risk_manager))

NextRiskReport ==
    \/ DoUpdateBalance
    \/ DoRecordTradePnl
    \/ DoCheckStopLoss
    \/ DoCheckTakeProfit
    \/ DoResetDailyMetrics
    \/ DoGetRiskReport

SpecRiskReport == InitRisk /\ [][NextRiskReport]_vars

(***************************************************************************)
(* The P&L bookkeeping of a RiskManager, with the values recorded so far   *)
(* kept next to the observation of the call.                               *)
(***************************************************************************)
RecordedPnLs == {-50, 0, 100}

DoRecordTradePnlRecorded ==
    \E pnl \in RecordedPnLs :
        /\ Len(risk_last.recorded) < MaxRecorded
        /\ risk_manager' = record_trade_pnl(risk_manager, pnl)
        /\ risk_last' = [op |-> "record_trade_pnl", args |-> <<pnl>>,
                         result |-> NoResult,
                         recorded |-> Append(risk_last.recorded, pnl)]
        /\ UNCHANGED engine_vars

DoResetDailyMetricsRecorded ==
    /\ risk_manager' = reset_daily_metrics(risk_manager)
    /\ risk_last' = [op |-> "reset_daily_metrics", args |-> <<>>,
                     result |-> NoResult, recorded |-> risk_last.recorded]
    /\ UNCHANGED engine_vars

InitPnl ==
    /\ InitEngine
    /\ simulation_mode
    /\ config.grid_type = "arithmetic"
    /\ status_callbacks = <<>>
    /\ risk_manager = RiskManager(DefaultLimits)
    /\ risk_last = [op |-> "init", args |-> <<>>, result |-> NoResult,
                    recorded |-> <<>>]

NextPnl ==
    \/ DoRecordTradePnlRecorded
    \/ DoResetDailyMetricsRecorded

SpecPnl == InitPnl /\ [][NextPnl]_vars

(***************************************************************************)
(* The live engine with a user stream whose reports may carry any          *)
(* clientOrderId.                                                          *)
(***************************************************************************)
InitReports ==
    /\ Init
    /\ ~simulation_mode
    /\ connected

NextReports ==
    \/ DoStart
    \/ DoStop
    \/ DoUpdateConfig
    \/ StreamPrice
    \/ StreamOrderUpdate
    \/ StreamLevellessOrderUpdate

SpecReports == InitReports /\ [][NextReports]_vars

(***************************************************************************)
(* The live engine with fill handlers that wait for the exchange while     *)
(* stop() may run.                                                         *)
(***************************************************************************)
InitInFlight ==
    /\ Init
    /\ ~simulation_mode
    /\ connected

NextInFlight ==
    \/ DoStartSettled
    \/ DoStopInFlight
    \/ FillRotationAwaits
    \/ FillRotationResumes

SpecInFlight == InitInFlight /\ [][NextInFlight]_vars

(***************************************************************************)
(* The live engine restarted while the stream tasks of its earlier run     *)
(* deliver order updates.                                                  *)
(***************************************************************************)
InitRestart ==
    /\ Init
    /\ ~simulation_mode
    /\ connected
    /\ config.grid_type = "geometric"

NextRestart ==
    \/ DoStartSettled
    \/ DoStop
    \/ StartAwaitsPlacement
    \/ StartResumes
    \/ StreamOrderUpdateRestarted

SpecRestart == InitRestart /\ [][NextRestart]_vars

(***************************************************************************)
(* A live engine and an engine in simulation mode on the same grid,        *)
(* started at the same price and taken through the same fills.             *)
(***************************************************************************)
InitTwin ==
    /\ InitEngineWith(TwinSymbolInfos)
    /\ ~simulation_mode
    /\ connected
    /\ status_callbacks = <<Returns>>
    /\ risk_manager = RiskManager(DefaultLimits)
    /\ risk_last = [op |-> "init", args |-> <<>>, result |-> NoResult]

NextTwin ==
    \/ TwinStart
    \/ TwinPriceUpdate
    \/ TwinStop
    \/ TwinTick

SpecTwin == InitTwin /\ [][NextTwin]_vars

(***************************************************************************)
(* The engine in simulation mode with subscribers to its status, some of   *)
(* which raise.                                                            *)
(***************************************************************************)
InitSubscribers ==
    /\ Init
    /\ simulation_mode
    /\ config.grid_type = "arithmetic"

NextSubscribers ==
    \/ DoOnStatusUpdate
    \/ DoStart
    \/ DoStop
    \/ DoSimulatePriceMovement

SpecSubscribers == InitSubscribers /\ [][NextSubscribers]_vars

(***************************************************************************)
(* The configuration of an engine in simulation mode: configurations are   *)
(* posted, and the engine is started and stopped with the one it has.      *)
(***************************************************************************)
InitConfig ==
    /\ Init
    /\ simulation_mode

\* bot.start() with a grid within the bound
DoStartPosted ==
    /\ config.grid_count <= MaxGridCount
    /\ DoStart

NextConfig ==
    \/ DoPostConfig
    \/ DoStartPosted
    \/ DoStop

SpecConfig == InitConfig /\ [][NextConfig]_vars

(***************************************************************************)
(* Properties.  The events of the most recent handler are last.trace.      *)
(***************************************************************************)
LastEvents == {last.trace[k] : k \in 1..Len(last.trace)}
LastFills == {e \in LastEvents : e.ev = "fill"}
OpenOrders == {open_orders[id] : id \in DOMAIN open_orders}

\* C1: after any sequence of handlers, each run to completion, the open-order
\* set never holds two BUY orders or two SELL orders of the same grid level.
C1_OneOrderPerLevelAndSide ==
    \A id1, id2 \in DOMAIN open_orders :
        (/\ open_orders[id1].grid_level # NoLevel
         /\ open_orders[id1].grid_level = open_orders[id2].grid_level
         /\ open_orders[id1].side = open_orders[id2].side) => id1 = id2

\* a fill was handled whose counter-order level already held an order of the
\* counter side, and that order is still the only one of its level and side
C1_Witness ==
    \E e \in LastFills :
        /\ e.counter_held
        /\ ~e.raised
        /\ \E o \in OpenOrders :
              /\ o.side # e.order.side
              /\ o.grid_level = e.order.grid_level + (IF e.order.side = BUY THEN 1 ELSE -1)

\* C2: in every reachable state each level's has_buy_order is true exactly
\* when its buy_order_id is set, and has_sell_order exactly when its
\* sell_order_id is set.
C2_FlagsAgreeWithIds ==
    \A i \in 1..Len(grid_levels) :
        /\ grid_levels[i].has_buy_order <=> grid_levels[i].buy_order_id # NoId
        /\ grid_levels[i].has_sell_order <=> grid_levels[i].sell_order_id # NoId

\* a fill has just cleared one level's flag and id while placing the
\* counter-order has set another level's
C2_Witness ==
    \E e \in LastFills :
        /\ Len(e.placed) = 1
        /\ grid_levels[e.order.grid_level + 1].buy_order_id = NoId
        /\ grid_levels[e.order.grid_level + 1].sell_order_id = NoId
        /\ \E i \in 1..Len(grid_levels) : grid_levels[i].has_sell_order
        /\ \E i \in 1..Len(grid_levels) : grid_levels[i].has_buy_order

\* C3: every placement of the engine, at start and during fill rotation, is
\* preceded in its handler by a RiskManager.can_place_order check.
C3_PlacementsAreRiskChecked ==
    \A k \in 1..Len(last.trace) :
        last.trace[k].ev = "placed" =>
            \E j \in 1..(k - 1) : /\ last.trace[j].ev = "call"
                                  /\ last.trace[j].fn = "can_place_order"

\* the handled fills of the most recent handler whose order carries a level
HandledFills == {e \in LastFills : ~e.raised /\ e.level_known}
BuyFills == {e \in HandledFills : e.order.side = BUY}
SellFills == {e \in HandledFills : e.order.side = SELL}

\* price and quantity of an order as its provider records them
ProviderPrice(p) == IF simulation_mode THEN p ELSE round_price(p)
ProviderQuantity(q) == IF simulation_mode THEN q ELSE round_quantity(q)

\* the one order a handled fill placed: side, level index, and in the open set
PlacedOne(e, side, i) ==
    /\ Len(e.placed) = 1
    /\ e.placed[1].order.side = side
    /\ e.placed[1].order.grid_level = i
    /\ e.placed[1].order.price = ProviderPrice(grid_levels[i + 1].price)
    /\ e.placed[1].order.quantity = ProviderQuantity(config.amount_per_grid)
    /\ e.placed[1].order.order_id \in DOMAIN open_orders

\* C4 (as amended): a handled BUY fill of level i, level i+1 existing, clears
\* level i's buy flag and places no BUY; it adds exactly one SELL of level
\* i+1, at that level's price and the configured quantity as the provider
\* records them, if level i+1 held no SELL and the placement did not fail,
\* and places nothing otherwise.
C4_BuyFillRotation ==
    \A e \in BuyFills :
        e.order.grid_level + 1 < Len(grid_levels) =>
            /\ ~e.has_buy_order
            /\ IF ~e.counter_held /\ e.failed = 0
               THEN PlacedOne(e, SELL, e.order.grid_level + 1)
               ELSE e.placed = <<>>

\* a BUY fill in live mode placed its SELL at a price the gateway rounded
C4_Witness ==
    \E e \in BuyFills :
        /\ e.order.grid_level + 1 < Len(grid_levels)
        /\ PlacedOne(e, SELL, e.order.grid_level + 1)
        /\ e.placed[1].order.price # grid_levels[e.order.grid_level + 2].price

\* C4 as stated: every handled BUY fill of level i, level i+1 existing,
\* clears the buy flag and adds exactly one SELL at level i+1's price with
\* the configured quantity.
C4_AsStated ==
    \A e \in BuyFills :
        e.order.grid_level + 1 < Len(grid_levels) =>
            /\ ~e.has_buy_order
            /\ Len(e.placed) = 1
            /\ e.placed[1].order.side = SELL
            /\ e.placed[1].order.price = grid_levels[e.order.grid_level + 2].price
            /\ e.placed[1].order.quantity = config.amount_per_grid

\* C5 (as amended): a handled SELL fill of level i clears level i's sell
\* flag; it places exactly one BUY of level i-1 if i >= 1, level i-1 held no
\* BUY and the placement did not fail, and places nothing otherwise (so
\* nothing when i = 0); a handled BUY fill of the top level places nothing.
C5_SellFillRotation ==
    /\ \A e \in SellFills :
        /\ ~e.has_sell_order
        /\ IF e.order.grid_level >= 1 /\ ~e.counter_held /\ e.failed = 0
           THEN PlacedOne(e, BUY, e.order.grid_level - 1)
           ELSE e.placed = <<>>
    /\ \A e \in BuyFills :
        e.order.grid_level + 1 = Len(grid_levels) =>
            ~e.has_buy_order /\ e.placed = <<>> /\ e.failed = 0

\* one handler handled a SELL fill that placed its BUY one level down
C5_Witness ==
    \E e \in SellFills : PlacedOne(e, BUY, e.order.grid_level - 1)

\* C5 as stated: every handled SELL fill of level i >= 1 places a BUY at
\* level i-1; a SELL fill of level 0 and a BUY fill of the top level place
\* nothing.
C5_AsStated ==
    /\ \A e \in SellFills :
        /\ ~e.has_sell_order
        /\ IF e.order.grid_level >= 1
           THEN /\ Len(e.placed) = 1
                /\ e.placed[1].order.side = BUY
                /\ e.placed[1].order.grid_level = e.order.grid_level - 1
           ELSE e.placed = <<>>
    /\ \A e \in BuyFills :
        e.order.grid_level + 1 = Len(grid_levels) => e.placed = <<>>

\* C6: every handled SELL fill adds (price of the filled level - price of the
\* level below it) x filled quantity to the total and to the daily profit;
\* a handled BUY fill adds nothing to either.
C6_ProfitIsSpacingOfFilledLevel ==
    /\ \A e \in SellFills :
        e.order.grid_level >= 1 =>
            /\ e.profit = (grid_levels[e.order.grid_level + 1].price
                            - grid_levels[e.order.grid_level].price)
                          * e.order.filled_quantity
            /\ e.daily = e.profit
    /\ \A e \in BuyFills : e.profit = 0 /\ e.daily = 0

\* C7: a FILLED order update for an order the engine has already handled
\* (its trade is recorded) appends no trade, adds no profit, places no order
\* and changes no level flag.
C7_DuplicateFillIsIgnored ==
    [][(/\ last'.op = "order_update"
        /\ last'.arg.status = FILLED
        /\ \E k \in 1..Len(trades) : trades[k].order_id = last'.arg.order_id)
       => /\ trades' = trades
          /\ total_profit' = total_profit
          /\ daily_profit' = daily_profit
          /\ grid_levels' = grid_levels
          /\ open_orders' = open_orders
          /\ exchange_orders' = exchange_orders
          /\ \A k \in 1..Len(last'.trace) :
                last'.trace[k].ev \notin {"placed", "fill", "call"}]_vars

\* a FILLED update has been delivered for an order whose trade was recorded
\* by an earlier handler, the engine still running with orders open
C7_Witness ==
    /\ last.op = "order_update"
    /\ last.arg.status = FILLED
    /\ \E k \in 1..Len(trades) : trades[k].order_id = last.arg.order_id
    /\ LastFills = {}
    /\ running
    /\ open_orders # EmptyDict

\* the open orders of level index i and one side
OrdersOf(i, side) == {o \in OpenOrders : o.grid_level = i /\ o.side = side}

C9_StartStopNoOps ==
    [][(\/ last'.op = "start" /\ last'.was_running /\ running
        \/ last'.op = "stop" /\ ~last'.was_running /\ ~running)
       => /\ UNCHANGED <<running, grid_levels, open_orders, trades, total_profit,
                         daily_profit, current_price, last_error, sim_orders,
                         callbacks, streams, next_order_id, exchange_orders>>
          /\ last'.trace = <<>>
          /\ ~last'.raised]_vars

\* start() has returned on an engine that was running with orders open
C9_Witness ==
    /\ last.op = "start"
    /\ last.was_running
    /\ running
    /\ open_orders # EmptyDict
    /\ Len(trades) > 0

\* C10: when stop() completes on a running engine, the engine is idle, its
\* open-order set is empty, and status was published exactly once, after
\* the set was cleared.
C10_StopLeavesIdleAndEmpty ==
    (last.op = "stop" /\ last.was_running /\ ~last.raised)
    => /\ ~running
       /\ open_orders = EmptyDict
       /\ Cardinality({k \in 1..Len(last.trace) : last.trace[k].ev = "publish"}) = 1
       /\ last.trace[Len(last.trace)].ev = "publish"
       /\ last.trace[Len(last.trace)].status.open_orders = 0
       /\ ~last.trace[Len(last.trace)].status.is_running

\* stop() has completed on an engine that was running after a fill, with a
\* level still flagged as holding the order that was open
C10_Witness ==
    /\ last.op = "stop"
    /\ last.was_running
    /\ ~last.raised
    /\ Len(trades) > 0
    /\ \E i \in 1..Len(grid_levels) :
          grid_levels[i].has_buy_order \/ grid_levels[i].has_sell_order

\* the prices of the levels a configuration generates
LevelPrices(levels) == [i \in 1..Len(levels) |-> levels[i].price]

\* C11: update_config on a running engine raises and leaves the
\* configuration and every other field of the engine unchanged; on an idle
\* engine it replaces the configuration and nothing else, and the next start
\* builds its levels from the configuration then active.
C11_UpdateConfig ==
    [][/\ (last'.op = "update_config" /\ last'.was_running)
          => /\ last'.raised
             /\ UNCHANGED <<config, running, grid_levels, open_orders, trades,
                            total_profit, daily_profit, current_price,
                            last_error, sim_orders, callbacks, streams,
                            next_order_id, exchange_orders>>
       /\ (last'.op = "update_config" /\ ~last'.was_running)
          => /\ ~last'.raised
             /\ config' = last'.arg
             /\ UNCHANGED <<running, grid_levels, open_orders, trades,
                            total_profit, daily_profit, current_price,
                            last_error, sim_orders, callbacks, streams,
                            next_order_id, exchange_orders>>
       /\ (last'.op = "start" /\ ~last'.was_running)
          => /\ config' = config
             /\ LevelPrices(grid_levels') = get_grid_levels(config)]_vars

\* update_config has raised on a running engine that was asked for a
\* configuration other than the active one, the one its levels were built from
C11_Witness ==
    /\ last.op = "update_config"
    /\ last.was_running
    /\ last.raised
    /\ last.arg # config
    /\ running
    /\ LevelPrices(grid_levels) = get_grid_levels(config)
    /\ Len(trades) > 0

\* C12: a start() that fails for want of a current price raises, leaves the
\* engine idle with the failure recorded in last_error and the open-order
\* set empty, and has placed no order; a start() that succeeds leaves
\* last_error cleared.
C12_FailedStart ==
    /\ (last.op = "start" /\ ~last.was_running /\ last.raised)
       => /\ last.exc \in {"Client not connected", "ticker request failed",
                           "Current price not available"}
          /\ ~running
          /\ last_error = last.exc
          /\ open_orders = EmptyDict
          /\ \A e \in LastEvents :
                /\ e.ev \notin {"placed", "order_failed", "publish"}
                /\ e.ev = "call" => e.fn # "place_limit_order"
    /\ (last.op = "start" /\ ~last.was_running /\ ~last.raised)
       => running /\ last_error = NoError

\* a start() has failed on an engine that had run and traded before
C12_Witness ==
    /\ last.op = "start"
    /\ ~last.was_running
    /\ last.raised
    /\ last_error = "ticker request failed"
    /\ Len(trades) > 0

\* the placements the last operation saw rejected
LastFailures == {e \in LastEvents : e.ev = "order_failed"}

\* the level indexes for which the last operation attempted a placement
LastAttempts ==
    {e.level : e \in LastFailures}
        \cup {e.order.grid_level : e \in {x \in LastEvents : x.ev = "placed"}}

\* C13: a placement the gateway rejects during start or rotation does not
\* fail the engine: the operation does not raise, the level keeps the
\* affected side's flag false and id null, the open-order set holds no order
\* for that level and side, and a start still attempts every other level off
\* the current price and ends running.
C13_RejectedPlacement ==
    \A e \in LastFailures :
        /\ ~last.raised
        /\ last.op \in {"start", "order_update", "simulate_price_movement"}
        /\ e.side = BUY
              => /\ ~grid_levels[e.level + 1].has_buy_order
                 /\ grid_levels[e.level + 1].buy_order_id = NoId
        /\ e.side = SELL
              => /\ ~grid_levels[e.level + 1].has_sell_order
                 /\ grid_levels[e.level + 1].sell_order_id = NoId
        /\ \A o \in OpenOrders : ~(o.grid_level = e.level /\ o.side = e.side)
        /\ \A x \in LastEvents :
              x.ev = "placed"
                 => ~(x.order.grid_level = e.level /\ x.order.side = e.side)
        /\ last.op = "start"
              => /\ running
                 /\ \A j \in LevelIndexes :
                       grid_levels[j + 1].price # current_price
                          => j \in LastAttempts

\* a start whose placement at level 1 was rejected went on to place at level 2
C13_Witness ==
    /\ last.op = "start"
    /\ running
    /\ \E e \in LastFailures :
          /\ e.level = 1
          /\ e.error = "BinanceAPIException"
          /\ \E x \in LastEvents :
                /\ x.ev = "placed"
                /\ x.order.grid_level = 2
                /\ x.order.order_id \in DOMAIN open_orders

\* the calls of _handle_filled_order an operation completed, in order, from
\* its trace
IsCompletedFill(e) == e.ev = "fill" /\ ~e.raised
CompletedFills(trace) == SelectSeq(trace, IsCompletedFill)

\* C14: the trade history is append-only over every operation, stop, restart
\* and update_config included: each step keeps the old history as a prefix
\* of the new one, and an operation appends exactly one trade, that of the
\* filled order, per fill it handled; a call of the fill handler that is
\* aborted because the order is not in the open-order set records nothing.
C14_TradesAppendOnly ==
    [][/\ Len(trades') >= Len(trades)
       /\ SubSeq(trades', 1, Len(trades)) = trades
       /\ now' = now
             => /\ Len(trades') = Len(trades) + Len(CompletedFills(last'.trace))
                /\ \A k \in 1..Len(CompletedFills(last'.trace)) :
                      /\ CompletedFills(last'.trace)[k].traded = 1
                      /\ trades'[Len(trades) + k].order_id
                            = CompletedFills(last'.trace)[k].order.order_id
                      /\ trades'[Len(trades) + k].side
                            = CompletedFills(last'.trace)[k].order.side
                /\ \A k \in 1..Len(last'.trace) :
                      (last'.trace[k].ev = "fill" /\ last'.trace[k].raised)
                         => last'.trace[k].traded = 0]_vars

\* an engine that had recorded a trade was stopped and started again, and
\* the history still holds the trade
C14_Witness ==
    /\ last.op = "start"
    /\ ~last.was_running
    /\ ~last.raised
    /\ callbacks >= 2
    /\ Len(trades) > 0
    /\ trades[1].trade_id = 0

(***************************************************************************)
(* Properties of the RiskManager, under SpecRisk.  risk_last is the call   *)
(* that led to the state.                                                  *)
(***************************************************************************)
Max(a, b) == IF a >= b THEN a ELSE b

\* the checks of a can_place_order call with arguments a = <<side, quantity,
\* price, current_open_orders>> on manager rm, in the order claimed: whether
\* each fails, and the reason it gives
ClaimedChecks(rm, a) ==
    <<[fails |-> rm.metrics.daily_pnl <= -rm.limits.daily_loss_limit,
       reason |-> <<"Daily loss limit reached">>],
      [fails |-> a[4] >= rm.limits.max_open_orders,
       reason |-> <<"Max open orders (", rm.limits.max_open_orders, ") reached">>],
      [fails |-> a[2] * a[3] * 100
                    > rm.limits.max_position_size * rm.current_balance,
       reason |-> <<"Order exceeds max position size">>],
      [fails |-> rm.metrics.consecutive_losses >= rm.limits.max_consecutive_losses,
       reason |-> <<"Max consecutive losses (",
                    rm.limits.max_consecutive_losses, ") reached">>],
      [fails |-> rm.metrics.drawdown >= rm.limits.max_drawdown_percent,
       reason |-> <<"Max drawdown (", rm.limits.max_drawdown_percent,
                    "%) reached">>]>>

\* the indexes of the checks that fail
Failing(rm, a) == {k \in 1..5 : ClaimedChecks(rm, a)[k].fails}

\* C15: can_place_order evaluates daily loss limit, max open orders, order
\* notional against max_position_size x balance, consecutive losses and
\* drawdown in that order; it returns (false, reason of the first failing
\* check), or (true, OK) exactly when none fails, and changes no risk state.
C15_CheckOrder ==
    [][risk_last'.op = "can_place_order"
          => /\ risk_manager' = risk_manager
             /\ Failing(risk_manager, risk_last'.args) # {}
                   => risk_last'.result =
                        <<FALSE,
                          ClaimedChecks(risk_manager, risk_last'.args)
                            [CHOOSE k \in Failing(risk_manager, risk_last'.args) :
                                \A j \in Failing(risk_manager, risk_last'.args) :
                                    k <= j].reason>>
             /\ Failing(risk_manager, risk_last'.args) = {}
                   <=> risk_last'.result = <<TRUE, <<"OK">>>>]_vars

\* a call that fails the open-order, the position-size and the
\* consecutive-loss check was rejected for the open orders
C15_Witness ==
    /\ risk_last.op = "can_place_order"
    /\ Failing(risk_manager, risk_last.args) = {2, 3, 4}
    /\ risk_last.result[1] = FALSE
    /\ risk_last.result[2][1] = "Max open orders ("

\* the threshold of the daily loss limit is reached by the P&L recorded
\* since the last reset
DailyLossReached ==
    Sum(risk_manager.daily_trades) <= -risk_manager.limits.daily_loss_limit

\* C16: while the sum of the P&L values recorded since the last daily reset
\* is at or below minus the daily loss limit, every can_place_order call is
\* rejected with the daily-loss-limit reason whatever its arguments; after
\* reset_daily_metrics, or once recorded P&L has lifted the sum above the
\* threshold, no call is rejected for that reason.
C16_DailyLossBlocks ==
    /\ risk_manager.metrics.daily_pnl = Sum(risk_manager.daily_trades)
    /\ risk_last.op = "reset_daily_metrics" => ~DailyLossReached
    /\ risk_last.op = "can_place_order"
          => (DailyLossReached
                <=> risk_last.result = <<FALSE, <<"Daily loss limit reached">>>>)

\* a call that fails no other check was rejected for the daily loss, the
\* day's losses having reached the limit
C16_Witness ==
    /\ risk_last.op = "can_place_order"
    /\ DailyLossReached
    /\ Len(risk_manager.daily_trades) >= 2
    /\ Failing(risk_manager, risk_last.args) = {1}
    /\ risk_last.result = <<FALSE, <<"Daily loss limit reached">>>>

\* C17: the peak never decreases; update_balance(b) leaves the peak at the
\* larger of the old peak and b, hence at the largest balance seen, and,
\* when the peak is positive, the drawdown at (peak - b) / peak x 100, which
\* is 0 at a new peak; max_drawdown is the larger of its old value and the
\* drawdown.
C17_PeakAndDrawdown ==
    [][/\ risk_manager'.peak_balance >= risk_manager.peak_balance
       /\ risk_last'.op = "update_balance"
             => /\ risk_manager'.current_balance = risk_last'.args[1]
                /\ risk_manager'.peak_balance
                      = Max(risk_manager.peak_balance, risk_last'.args[1])
                /\ risk_manager'.peak_balance > 0
                      => risk_manager'.metrics.drawdown * risk_manager'.peak_balance
                            = (risk_manager'.peak_balance - risk_last'.args[1]) * 100
                /\ (risk_manager'.peak_balance > 0
                    /\ risk_last'.args[1] >= risk_manager.peak_balance)
                      => risk_manager'.metrics.drawdown = 0
                /\ risk_manager'.metrics.max_drawdown
                      = Max(risk_manager.metrics.max_drawdown,
                            risk_manager'.metrics.drawdown)]_vars

\* a balance below the peak was reported after a deeper fall: the peak is
\* kept, the drawdown is 75 and max_drawdown is still 100
C17_Witness ==
    /\ risk_last.op = "update_balance"
    /\ risk_last.args[1] = 50
    /\ risk_manager.peak_balance = 200
    /\ risk_manager.metrics.drawdown = 75
    /\ risk_manager.metrics.max_drawdown = 100

\* C18: check_stop_loss returns true exactly when the price is at or below
\* lower_price x (1 - stop_loss_percent / 100), and check_take_profit exactly
\* when it is at or above upper_price x (1 + take_profit_percent / 100); a
\* price above the stop threshold, below the lower bound included, does not
\* trigger the stop loss.
C18_Thresholds ==
    /\ risk_last.op = "check_stop_loss"
          => /\ risk_last.result
                   <=> risk_last.args[1] * 100
                          <= risk_last.args[2].lower_price
                                * (100 - risk_manager.limits.stop_loss_percent)
             /\ risk_last.result => risk_manager.metrics.stop_loss_triggered
    /\ risk_last.op = "check_take_profit"
          => /\ risk_last.result
                   <=> risk_last.args[1] * 100
                          >= risk_last.args[2].upper_price
                                * (100 + risk_manager.limits.take_profit_percent)
             /\ risk_last.result => risk_manager.metrics.take_profit_triggered

\* a price between the stop threshold and the lower bound was checked and
\* did not trigger the stop loss
C18_Witness ==
    /\ risk_last.op = "check_stop_loss"
    /\ risk_last.args[1] < risk_last.args[2].lower_price
    /\ risk_last.args[1] * 100
          > risk_last.args[2].lower_price
                * (100 - risk_manager.limits.stop_loss_percent)
    /\ risk_last.result = FALSE
    /\ ~risk_manager.metrics.stop_loss_triggered

\* C19: a trigger flag that is set stays set through every call other than
\* reset_daily_metrics, checks at prices that do not meet the threshold
\* included.
C19_FlagsSticky ==
    [][risk_last'.op # "reset_daily_metrics"
          => /\ risk_manager.metrics.stop_loss_triggered
                   => risk_manager'.metrics.stop_loss_triggered
             /\ risk_manager.metrics.take_profit_triggered
                   => risk_manager'.metrics.take_profit_triggered]_vars

\* the take profit was checked at a price below its threshold and returned
\* false, and the flag an earlier check set is still set
C19_Witness ==
    /\ risk_last.op = "check_take_profit"
    /\ risk_last.result = FALSE
    /\ risk_manager.metrics.take_profit_triggered
    /\ risk_manager.metrics.stop_loss_triggered

\* C20: reset_daily_metrics empties the day's P&L list, sets the daily P&L to
\* 0 and clears both trigger flags, and leaves drawdown, max_drawdown, the
\* consecutive-loss counter, the peak balance and the current balance as
\* they were.
C20_ResetDailyMetrics ==
    [][risk_last'.op = "reset_daily_metrics"
          => /\ risk_manager'.daily_trades = <<>>
             /\ risk_manager'.metrics.daily_pnl = 0
             /\ ~risk_manager'.metrics.stop_loss_triggered
             /\ ~risk_manager'.metrics.take_profit_triggered
             /\ risk_manager'.metrics.drawdown = risk_manager.metrics.drawdown
             /\ risk_manager'.metrics.max_drawdown
                   = risk_manager.metrics.max_drawdown
             /\ risk_manager'.metrics.consecutive_losses
                   = risk_manager.metrics.consecutive_losses
             /\ risk_manager'.peak_balance = risk_manager.peak_balance
             /\ risk_manager'.current_balance = risk_manager.current_balance
             /\ risk_manager'.limits = risk_manager.limits]_vars

\* the metrics were reset after losses and a fall of the balance, and the
\* loss counter, the drawdown and the balances are still there
C20_Witness ==
    /\ risk_last.op = "reset_daily_metrics"
    /\ risk_manager.daily_trades = <<>>
    /\ risk_manager.metrics.consecutive_losses >= 2
    /\ risk_manager.metrics.drawdown = 50
    /\ risk_manager.metrics.max_drawdown = 100
    /\ risk_manager.peak_balance = 100
    /\ risk_manager.current_balance = 50

(***************************************************************************)
(* Properties of the configuration, under SpecConfig.                      *)
(***************************************************************************)
\* the configuration is valid as the specification defines it
ValidConfig(c) ==
    /\ c.upper_price > c.lower_price
    /\ c.lower_price > 0
    /\ c.grid_count >= 2
    /\ c.grid_count <= 100
    /\ c.amount_per_grid > 0

C22_InvalidConfigRejected ==
    /\ (last.op = "post_config" /\ ~ValidConfig(last.arg)) => last.raised
    /\ ValidConfig(config)
    /\ running => config.upper_price > config.lower_price

(***************************************************************************)
(* Properties of simulated fills and of order updates, under Spec.         *)
(***************************************************************************)
\* the open orders a simulated price update at p is to fill
ToFill(p) == {o \in OpenOrders : ShouldFill(o, p)}

\* the ids of the orders of a sequence
IdsOf(orders) == [k \in 1..Len(orders) |-> orders[k].order_id]

\* C23: a simulated price update p on a running engine fills exactly the open
\* orders that are BUY with p <= price or SELL with p >= price: the update
\* does not raise, the fill handler is called once for each of them, in the
\* order of their placement, with the order FILLED, and records one trade
\* each; none of them is left in the open-order set as it was, and every
\* other order that was open is still open and unchanged.
C23_SimulatedFills ==
    [][(/\ simulation_mode
        /\ last'.op = "simulate_price_movement"
        /\ last'.was_running
        /\ now' = now)
          => /\ ~last'.raised
             /\ IdsOf([k \in 1..Len(FillsOf(last'.trace)) |->
                          FillsOf(last'.trace)[k].order])
                   = IdsOf(SelectSeq(sim_orders,
                                     LAMBDA o : o \in ToFill(last'.arg)))
             /\ \A k \in 1..Len(FillsOf(last'.trace)) :
                   /\ ~FillsOf(last'.trace)[k].raised
                   /\ FillsOf(last'.trace)[k].traded = 1
                   /\ FillsOf(last'.trace)[k].order.status = FILLED
             /\ Len(trades') = Len(trades) + Cardinality(ToFill(last'.arg))
             /\ \A id \in DOMAIN open_orders :
                   IF open_orders[id] \in ToFill(last'.arg)
                   THEN id \in DOMAIN open_orders'
                           => open_orders'[id].status = NEW_
                   ELSE /\ id \in DOMAIN open_orders'
                        /\ open_orders'[id] = open_orders[id]]_vars

\* C24: stop() cancels every open order at its provider: once stop() has
\* completed in simulation mode, no simulated order that was open before it
\* is still NEW, and a price update on the stopped engine fills no order.
C24_StopCancelsSimulatedOrders ==
    [][/\ (simulation_mode /\ last'.op = "stop" /\ last'.was_running)
          => \A i \in 1..Len(sim_orders') :
                sim_orders'[i].order_id \in DOMAIN open_orders
                   => sim_orders'[i].status # NEW_
       /\ (simulation_mode /\ last'.op = "simulate_price_movement"
           /\ ~last'.was_running /\ now' = now)
          => FillsOf(last'.trace) = <<>>]_vars

\* the terminal statuses of an order
Terminal == {FILLED, CANCELED, REJECTED, EXPIRED}

\* C25: an order update reporting CANCELED, REJECTED or EXPIRED for a tracked
\* order removes the order from the open-order set, so that after an order
\* update the set holds no order with one of these statuses.
C25_TerminalOrdersRemoved ==
    [][last'.op = "order_update"
          => /\ (/\ last'.arg.status \in {CANCELED, REJECTED, EXPIRED}
                 /\ last'.arg.order_id \in DOMAIN open_orders)
                   => last'.arg.order_id \notin DOMAIN open_orders'
             /\ \A id \in DOMAIN open_orders' :
                   open_orders'[id].status \notin {CANCELED, REJECTED, EXPIRED}]_vars

\* C26: once the status recorded for a tracked order is terminal, an order
\* update for it changes neither the recorded status nor the trade history
\* and calls no fill handling; an order reported CANCELED is not afterwards
\* handled as FILLED.
C26_TerminalStatusIsFinal ==
    [][(/\ last'.op = "order_update"
        /\ last'.arg.order_id \in DOMAIN open_orders
        /\ open_orders[last'.arg.order_id].status \in Terminal)
          => /\ FillsOf(last'.trace) = <<>>
             /\ trades' = trades
             /\ last'.arg.order_id \in DOMAIN open_orders'
                   => open_orders'[last'.arg.order_id].status
                         = open_orders[last'.arg.order_id].status]_vars

\* C27: status is published after every handled fill: each call of the fill
\* handler that records a trade publishes the status before it returns, a
\* call for an order that carries no grid level included.
C27_PublishAfterEveryFill ==
    \A e \in LastFills :
        e.traded = 1 => /\ ~e.raised
                        /\ e.published >= 1

\* the status publications of the most recent operation
LastPublications == {e \in LastEvents : e.ev = "publish"}

\* C28: on every status publication each registered subscriber is invoked
\* once, in turn, with the snapshot of that publication, whether or not an
\* earlier subscriber raised; a subscriber's exception is not the operation's
\* (the only exception of an operation in simulation mode is the KeyError of
\* the fill handler), and an operation that ends by publishing leaves the
\* engine as the snapshot shows it.
C28_SubscribersIsolated ==
    /\ \A e \in LastPublications :
          /\ Len(e.notified) = Len(status_callbacks)
          /\ \A k \in 1..Len(e.notified) :
                /\ e.notified[k].status = e.status
                /\ e.notified[k].raised <=> status_callbacks[k] = Raises
    /\ last.raised => last.exc = "KeyError"
    /\ (last.op \in {"start", "stop"} /\ last.was_running = (last.op = "stop"))
          => /\ ~last.raised
             /\ running = (last.op = "start")
    /\ (Len(last.trace) > 0 /\ last.trace[Len(last.trace)].ev = "publish")
          => last.trace[Len(last.trace)].status = get_status(Bot)

\* a price update filled an order and published the status to three
\* subscribers, the second of which raised
C28_Witness ==
    /\ last.op = "simulate_price_movement"
    /\ ~last.raised
    /\ LastFills # {}
    /\ Len(status_callbacks) = 3
    /\ status_callbacks[2] = Raises
    /\ LastPublications # {}
    /\ \A e \in LastPublications :
          /\ e.notified[2].raised
          /\ ~e.notified[3].raised
          /\ e.notified[3].status = e.status

\* the cancel-all request of the most recent operation was answered with
\* an error
CancelAllFailed == \E e \in LastEvents : e.ev = "cancelled" /\ e.failed

\* C29: when the exchange answers the cancel-all request of stop() on a
\* running live engine with an error, stop() still returns normally, with
\* the engine idle, the open-order set empty and the status published last,
\* showing an idle engine without open orders.
C29_CancelAllFailureNotFatal ==
    (last.op = "stop" /\ last.was_running /\ ~simulation_mode /\ CancelAllFailed)
    => /\ ~last.raised
       /\ ~running
       /\ open_orders = EmptyDict
       /\ last.trace[Len(last.trace)].ev = "publish"
       /\ last.trace[Len(last.trace)].status = get_status(Bot)
       /\ last.trace[Len(last.trace)].status.open_orders = 0
       /\ ~last.trace[Len(last.trace)].status.is_running

\* stop() has returned on a live engine whose cancel-all request failed
\* while orders placed by the engine were at the exchange
C29_Witness ==
    /\ last.op = "stop"
    /\ last.was_running
    /\ ~simulation_mode
    /\ CancelAllFailed
    /\ exchange_orders # EmptyDict
    /\ ~running

\* C30: when stop() has run while a fill handler was waiting for the
\* exchange's answer to the create_order request of its counter-order, then
\* once the handler has run to its end the engine is idle, its open-order
\* set is empty, and the counter-order, if the exchange created it, was
\* cancelled there.
C30_StopSafeAgainstInFlightRotation ==
    (last.op = "fill_rotation_resumes" /\ pending.stopped)
    => /\ ~running
       /\ open_orders = EmptyDict
       /\ pending.order_id # NoId => pending.cancelled

\* the orders of the open-order set resting at level index i on a side
OpenAt(i, side) ==
    {id \in DOMAIN open_orders :
        /\ open_orders[id].grid_level = i
        /\ open_orders[id].side = side
        /\ open_orders[id].status = NEW_}

\* C31: when start() has run to its end after waiting for the exchange at
\* the placement of a level while order updates were delivered, no level
\* has two open orders on one side.
C31_OnePerLevelAndSideInFlight ==
    (last.op = "start_resumes" /\ ~last.raised)
    => \A i \in 1..Len(grid_levels), side \in {BUY, SELL} :
          Cardinality(OpenAt(i - 1, side)) <= 1

\* what the claim compares of an engine: the flags of its levels, and the
\* side, price and quantity of its trades
FlagsOf(levels) ==
    [i \in 1..Len(levels) |-> <<levels[i].has_buy_order, levels[i].has_sell_order>>]
TradesOf(ts) ==
    [k \in 1..Len(ts) |-> <<ts[k].side, ts[k].price, ts[k].quantity>>]

SameOutcome ==
    /\ FlagsOf(grid_levels) = FlagsOf(twin.grid_levels)
    /\ TradesOf(trades) = TradesOf(twin.trades)
    /\ total_profit = twin.total_profit
    /\ daily_profit = twin.daily_profit

\* place_limit_order's rounding leaves every level price and the amount of
\* the configuration as they are
RoundingExact ==
    /\ \A i \in 1..Len(get_grid_levels(config)) :
          round_price(get_grid_levels(config)[i]) = get_grid_levels(config)[i]
    /\ round_quantity(config.amount_per_grid) = config.amount_per_grid

\* C32 as stated: with no placement refused, the live engine and the
\* simulation end with the same flags, trades and profit totals.
C32_AsStated ==
    (last.op \in {"twin_start", "twin_price_update"} /\ ~twin.rejected)
    => SameOutcome

\* C32, for the configurations whose level prices and amount the exchange's
\* tick and step sizes leave unrounded: with no placement refused, the live
\* engine and the simulation, started, stopped and given the same fills
\* together, end with the same flags, trades and profit totals.
C32_SameRotation ==
    (last.op \in {"twin_start", "twin_price_update"} /\ ~twin.rejected
     /\ RoundingExact)
    => SameOutcome

\* the length of the run of negative values a sequence ends with
RECURSIVE TrailingLosses(_)
TrailingLosses(values) ==
    IF values = <<>> THEN 0
    ELSE IF values[Len(values)] >= 0 THEN 0
    ELSE 1 + TrailingLosses(SubSeq(values, 1, Len(values) - 1))

\* C33: record_trade_pnl(v) appends v to the day's list and leaves daily
\* P&L at the sum of the list; it adds one to the consecutive-loss counter
\* when v is negative and sets it to zero otherwise, no other call touching
\* the counter, which therefore is the length of the run of negative values
\* that ends the sequence of all values recorded.
C33_RecordTradePnl ==
    [][/\ risk_last'.op = "record_trade_pnl"
             => /\ risk_manager'.daily_trades
                      = Append(risk_manager.daily_trades, risk_last'.args[1])
                /\ risk_manager'.metrics.consecutive_losses
                      = IF risk_last'.args[1] < 0
                        THEN risk_manager.metrics.consecutive_losses + 1
                        ELSE 0
       /\ risk_manager'.metrics.daily_pnl = Sum(risk_manager'.daily_trades)
       /\ risk_manager'.metrics.consecutive_losses
             = TrailingLosses(risk_last'.recorded)]_vars

\* two losses in a row have been counted across a daily reset, after a value
\* of zero had set the counter back
C33_Witness ==
    /\ risk_last.op = "record_trade_pnl"
    /\ risk_last.recorded = <<-50, 0, -50, -50>>
    /\ risk_manager.daily_trades = <<-50>>
    /\ risk_manager.metrics.consecutive_losses = 2

\* the conditions of the report's status, on the manager as it is
DrawdownHigh ==
    10 * risk_manager.metrics.drawdown >= 8 * risk_manager.limits.max_drawdown_percent
DailyLossHigh ==
    10 * risk_manager.metrics.daily_pnl <= -(8 * risk_manager.limits.daily_loss_limit)
LossesNearCeiling ==
    risk_manager.metrics.consecutive_losses
        >= risk_manager.limits.max_consecutive_losses - 1
DrawdownModerate ==
    2 * risk_manager.metrics.drawdown >= risk_manager.limits.max_drawdown_percent

\* C34: the status of a risk report is STOPPED exactly when the stop-loss
\* flag is set; otherwise HIGH_RISK exactly when the drawdown is at least
\* 80% of its ceiling or the daily P&L at or below minus 80% of the daily
\* loss limit; otherwise WARNING exactly when the consecutive losses are at
\* least the ceiling minus one; otherwise MODERATE exactly when the drawdown
\* is at least half its ceiling; otherwise NORMAL.  The take-profit flag has
\* no part in it.
C34_RiskStatusPriority ==
    risk_last.op = "get_risk_report"
    => LET status == risk_last.result.risk_status
           stopped == risk_manager.metrics.stop_loss_triggered
           high == DrawdownHigh \/ DailyLossHigh
       IN /\ status = "STOPPED" <=> stopped
          /\ status = "HIGH_RISK" <=> (~stopped /\ high)
          /\ status = "WARNING" <=> (~stopped /\ ~high /\ LossesNearCeiling)
          /\ status = "MODERATE"
                <=> (~stopped /\ ~high /\ ~LossesNearCeiling /\ DrawdownModerate)
          /\ status = "NORMAL"
                <=> (~stopped /\ ~high /\ ~LossesNearCeiling /\ ~DrawdownModerate)

\* a report of HIGH_RISK for the daily loss alone, the consecutive losses at
\* their ceiling and the take-profit flag set
C34_Witness ==
    /\ risk_last.op = "get_risk_report"
    /\ risk_last.result.risk_status = "HIGH_RISK"
    /\ DailyLossHigh
    /\ ~DrawdownHigh
    /\ LossesNearCeiling
    /\ risk_manager.metrics.take_profit_triggered

\* C35: in simulation mode a price update never raises, and leaves no
\* order marked FILLED in the open-order set.
C35_SimulatedUpdateNeverFails ==
    (simulation_mode /\ last.op = "simulate_price_movement")
    => /\ ~last.raised
       /\ \A id \in DOMAIN open_orders : open_orders[id].status # FILLED

\* C36: in simulation mode, when start or a price update has run to its
\* end, every resting (NEW) order of the open-order set is on its side of the
\* current price, a BUY strictly below it and a SELL strictly above it, and
\* no level has its buy flag and its sell flag set together.
C36_NoMarketableRestingOrder ==
    (simulation_mode /\ last.op \in {"start", "simulate_price_movement"}
     /\ ~last.raised)
    => /\ \A id \in DOMAIN open_orders :
             open_orders[id].status = NEW_
             => IF open_orders[id].side = BUY
                THEN open_orders[id].price < current_price
                ELSE open_orders[id].price > current_price
       /\ \A i \in 1..Len(grid_levels) :
             ~(grid_levels[i].has_buy_order /\ grid_levels[i].has_sell_order)

\* the level i (counted from 0) holds, in the open-order set, the order its
\* recorded id of that side names
Ledgered(i, side) ==
    LET id == IF side = BUY THEN grid_levels[i + 1].buy_order_id
              ELSE grid_levels[i + 1].sell_order_id
    IN  /\ id \in DOMAIN open_orders
        /\ open_orders[id].side = side
        /\ open_orders[id].grid_level = i

\* the number of flags set over all levels
SetFlags ==
    Cardinality({i \in 1..Len(grid_levels) : grid_levels[i].has_buy_order})
    + Cardinality({i \in 1..Len(grid_levels) : grid_levels[i].has_sell_order})

\* C37: while the engine is running and no handler is suspended at the
\* gateway, a level's buy (sell) flag is set exactly when the open-order set
\* holds the order its buy (sell) id names, of that side and level, and the
\* open-order set has as many orders as there are flags set.
C37_FlagsAgreeWithLedger ==
    (running /\ pending.pc \notin {"awaiting", "starting"})
    => /\ \A i \in 1..Len(grid_levels) :
             /\ grid_levels[i].has_buy_order <=> Ledgered(i - 1, BUY)
             /\ grid_levels[i].has_sell_order <=> Ledgered(i - 1, SELL)
       /\ Cardinality(DOMAIN open_orders) = SetFlags

\* the sum, over the SELL trades of a sequence of trades whose order id is
\* in ids, of spacing x the trade's quantity
RECURSIVE SellProfit(_, _, _)
SellProfit(ts, spacing, ids) ==
    IF ts = <<>> THEN 0
    ELSE (IF Head(ts).side = SELL /\ Head(ts).order_id \in ids
          THEN spacing * Head(ts).quantity ELSE 0)
         + SellProfit(Tail(ts), spacing, ids)

\* the trades a step has appended, and their order ids
NewTrades == SubSeq(trades', Len(trades) + 1, Len(trades'))
NewTradeIds == {NewTrades[k].order_id : k \in 1..Len(NewTrades)}

\* the ids of the filled orders the step's handler was given with a grid
\* level
LevelledFillIds ==
    {FillsOf(last'.trace)[k].order.order_id :
        k \in {j \in 1..Len(FillsOf(last'.trace)) :
                  FillsOf(last'.trace)[j].order.grid_level # NoLevel}}

Untracked == DOMAIN exchange_orders \ DOMAIN open_orders

\* C39: in live mode a stop() that completes leaves none of the orders placed
\* before it tracked; no later handler tracks such an order again, the
\* orders it starts to track being new at the exchange; and an order update
\* for an untracked order appends no trade, changes no profit counter and no
\* level flag, places no order at the gateway and publishes no status.  So
\* every order update delivered after the stop for an order placed before it
\* is ignored.
C39_UpdatesAfterStopIgnored ==
    [][~simulation_mode
          => /\ (last'.op = "stop" /\ last'.was_running /\ ~last'.raised)
                   => Untracked' = DOMAIN exchange_orders
             /\ Untracked \subseteq Untracked'
             /\ (last'.op = "order_update" /\ last'.arg.order_id \in Untracked)
                   => /\ trades' = trades
                      /\ total_profit' = total_profit
                      /\ daily_profit' = daily_profit
                      /\ grid_levels' = grid_levels
                      /\ open_orders' = open_orders
                      /\ exchange_orders' = exchange_orders
                      /\ last'.trace = <<>>]_vars

\* the engine was stopped and started again, and the stream has then
\* delivered the fill of an order of the earlier run, which was ignored
C39_Witness ==
    /\ ~simulation_mode
    /\ running
    /\ streams >= 2
    /\ pending.pc = "started"
    /\ open_orders # EmptyDict
    /\ last.op = "order_update"
    /\ last.arg.status = FILLED
    /\ last.arg.order_id \in Untracked
    /\ last.arg.grid_level # NoLevel
    /\ last.trace = <<>>
    /\ trades = <<>>

\* C40: while no positive balance has been given to update_balance (the
\* peak balance is still 0), can_place_order rejects every order of positive
\* quantity x price, with the position-size reason unless the daily-loss or
\* the open-orders check fails first; so a manager just constructed allows
\* no order.
C40_NoOrderBeforeBalance ==
    [][(/\ risk_last'.op = "can_place_order"
        /\ risk_manager.peak_balance = 0
        /\ risk_last'.args[2] * risk_last'.args[3] > 0)
          => /\ risk_last'.result[1] = FALSE
             /\ risk_last'.result[2] = <<"Order exceeds max position size">>
                   <=> /\ risk_manager.metrics.daily_pnl
                             > -risk_manager.limits.daily_loss_limit
                       /\ risk_last'.args[4]
                             < risk_manager.limits.max_open_orders]_vars

\* a manager that was given no positive balance, and has recorded a loss,
\* has rejected an order for its position size
C40_Witness ==
    /\ risk_last.op = "can_place_order"
    /\ risk_manager.peak_balance = 0
    /\ risk_manager.current_balance = 0
    /\ risk_manager.metrics.consecutive_losses >= 1
    /\ risk_last.args[2] * risk_last.args[3] > 0
    /\ risk_last.result = <<FALSE, <<"Order exceeds max position size">>>>

====
